---- MODULE Spec2Model ----
(***************************************************************************)
(* Read / write transaction chains (src/src/readChain.ts,                  *)
(* src/src/writeChain.ts) and the completion bridge promisifyTransaction   *)
(* (src/src/utils.ts), running against an IndexedDB-style host engine on   *)
(* a single-threaded, run-to-completion scheduler.                         *)
(*                                                                         *)
(* Host engine behaviour the chains rely on (Indexed Database API):        *)
(*  - a transaction is active during the turn that created it and inactive *)
(*    afterwards; it runs once no earlier overlapping transaction conflicts*)
(*    with it, executes its requests in the order issued and commits when  *)
(*    none is left;                                                        *)
(*  - a failed request fires an error event that bubbles to the            *)
(*    transaction while transaction.error is still unset; the transaction  *)
(*    then aborts (contents rolled back, transaction.error set), requests  *)
(*    still pending get error events, and the abort event fires last;      *)
(*  - put()/add() of a value without a usable key throws at the call.      *)
(***************************************************************************)
EXTENDS Integers, Sequences, FiniteSets, TLC

\* ------------------------------------------------------------------ bounds
MaxOps == 2          \* operations enqueued in one behaviour, all chains together
MaxCalls == 2        \* execute() calls made in one behaviour

\* ------------------------------------------------------- small input sets
Chains == {1, 2}
Stores == {"users", "posts"}
Keys == {1, 2}
Vals == {1, 2}
NoKey == 0           \* a value that carries no in-line key (key? omitted)
Absent == 0          \* no record under this key
IndexName == "byV"   \* the one secondary index, on the record's field v

\* declared scopes of chain 1 and chain 2
ScopeChoices == {<< <<"users">>, <<"users", "posts">> >>,
                 << <<"users", "posts">>, <<"users">> >>}

VARIABLES
  db,          \* db[s][k]: value stored in collection s under key k, or Absent
  kind,        \* kind[c]: "read" | "write"           (createReadChain / createWriteChain)
  storeNames,  \* storeNames[c]: declared scope       (closure parameter storeNames)
  operations,  \* operations[c]: the queue            (closure constant operations)
  calls,       \* calls[i]: the i-th execute() invocation (an async function activation)
  txs,         \* txs[t]: the t-th IDBTransaction opened on the connection
  running      \* id of the call whose synchronous turn is in progress, 0 = event loop idle

cvars == <<db, kind, storeNames, operations, calls, txs, running>>

VARIABLES
  products,    \* the records of the queried collection, each with primary key id
  builder,     \* the query builder object the caller holds     (query.ts classes)
  query,       \* the terminal operation in progress: its plan, transaction, promise
  cond,        \* a condition handed to the translator
  bound        \* the key range the translator returned for cond

qvars == <<products, builder, query>>
tvars == <<cond, bound>>

VARIABLES
  defaults,    \* the default values of the store's fields       (this.defaults)
  base,        \* a builder object the caller keeps in a variable, or Undefined
  branch       \* where builder stands to base: "none", "kept" (the same object),
               \* "first" (derived from it), "returned" (base again, after the
               \* first branch), "second" (derived from it after that)

bvars == <<defaults, base, branch>>

VARIABLES
  definitions, \* the store definitions made so far, defineStore / addMigration results
  origin,      \* origin[d]: the definition d was made from, and the names it was given
  last,        \* the last defineStore / addMigration call and the error it threw
  opened       \* the openDB call: its stores, its outcome, the migrations it ran

mvars == <<definitions, origin, last, opened>>

VARIABLES
  direct       \* the database.transaction(storeNames, mode, fn) call and its transaction

dvars == <<direct>>

VARIABLES
  upgrade      \* the database on disk, the open request on it and its upgrade

uvars == <<upgrade>>
vars == <<cvars, qvars, tvars, bvars, mvars, dvars, uvars>>

\* --------------------------------------------------- more bounds and inputs
MaxId == 3           \* primary keys 1..MaxId of the queried collection
MaxLimit == 2        \* counts handed to limit()
MaxOffset == 1       \* counts handed to offset()
MaxLen == 2          \* code units of a prefix; keys have up to MaxLen + 1
Prices == {1, 2}     \* values of the indexed field
NoIndex == ""        \* indexName undefined: the primary key of the collection
UFFFF == 65535       \* the code unit of '￿'
Units == {97, 98}    \* code units that string keys are made of ('a', 'b')

\* ------------------------------------------------------ JavaScript values
Undefined == [t |-> "undefined"]
Null == [t |-> "null"]
Num(n) == [t |-> "number", n |-> n]
Str(s) == [t |-> "string", s |-> s]        \* s: the sequence of UTF-16 code units
False == [t |-> "boolean", b |-> FALSE]
Arr(items) == [t |-> "array", items |-> items]
DOMException(name) == [t |-> "error", name |-> name]
DataError == DOMException("DataError")
TypeError == DOMException("TypeError")

\* the value in a boolean position (where ? ... : ...)
Truthy(v) ==
  CASE v.t \in {"undefined", "null"} -> FALSE
    [] v.t = "number"  -> v.n # 0
    [] v.t = "string"  -> v.s # <<>>
    [] v.t = "boolean" -> v.b
    [] OTHER           -> TRUE

\* ------------------------------------------- host engine: keys, key ranges
IsValidKey(v) == v.t \in {"number", "string"}

\* strings compare code unit by code unit; a proper prefix comes first
RECURSIVE UnitsLess(_, _)
UnitsLess(a, b) ==
  IF b = <<>> THEN FALSE
  ELSE IF a = <<>> THEN TRUE
  ELSE IF a[1] # b[1] THEN a[1] < b[1]
  ELSE UnitsLess(Tail(a), Tail(b))

\* key order of the engine: every number before every string
KeyLess(a, b) ==
  CASE a.t = "number" /\ b.t = "number" -> a.n < b.n
    [] a.t = "string" /\ b.t = "string" -> UnitsLess(a.s, b.s)
    [] OTHER -> a.t = "number" /\ b.t = "string"

NoRange == Undefined

KeyRange(lower, upper, lowerOpen, upperOpen) ==
  [t |-> "range", lower |-> lower, upper |-> upper,
   lowerOpen |-> lowerOpen, upperOpen |-> upperOpen]

\* IDBKeyRange.only / lowerBound / upperBound / bound; DataError is thrown
Only(v) == IF IsValidKey(v) THEN KeyRange(v, v, FALSE, FALSE) ELSE DataError

LowerBound(v, open) ==
  IF IsValidKey(v) THEN KeyRange(v, Undefined, open, TRUE) ELSE DataError

UpperBound(v, open) ==
  IF IsValidKey(v) THEN KeyRange(Undefined, v, TRUE, open) ELSE DataError

AnyBound(lower, upper, lowerOpen, upperOpen) ==
  KeyRange(lower, upper, lowerOpen, upperOpen)

Bound(lower, upper, lowerOpen, upperOpen) ==
  IF \/ ~IsValidKey(lower) \/ ~IsValidKey(upper)
     \/ KeyLess(upper, lower)
     \/ (lower = upper /\ (lowerOpen \/ upperOpen))
    THEN DataError
    ELSE KeyRange(lower, upper, lowerOpen, upperOpen)

\* whether key k lies in range r (no range: every key does)
InRange(k, r) ==
  \/ r = NoRange
  \/ /\ r.t = "range"
     /\ \/ r.lower = Undefined
        \/ KeyLess(r.lower, k)
        \/ (~r.lowerOpen /\ r.lower = k)
     /\ \/ r.upper = Undefined
        \/ KeyLess(k, r.upper)
        \/ (~r.upperOpen /\ r.upper = k)

\* ------------------------------------------------------------- translator
\* a WhereCondition object; an absent field is Undefined
NoCond ==
  [t |-> "object", eq |-> Undefined, between |-> Undefined, startsWith |-> Undefined,
   gte |-> Undefined, lte |-> Undefined, gt |-> Undefined, lt |-> Undefined]

Pair(lo, hi) == [t |-> "array", lo |-> lo, hi |-> hi]

isWhereConditionObject(condition) == condition.t \in {"object", "array"}

NoSentinel(prefix) == prefix

\* prefix + '￿'
Sentinel(prefix) == Str(Append(prefix.s, UFFFF))

LteFirst(c) ==
  IF c.lte # Undefined THEN UpperBound(c.lte, FALSE)
  ELSE IF c.lt # Undefined THEN UpperBound(c.lt, TRUE)
  ELSE IF c.gte # Undefined THEN LowerBound(c.gte, FALSE)
  ELSE LowerBound(c.gt, TRUE)

\* the four single-field cases of parseWhereCondition, in the order tested
OneSided(c) ==
  IF c.gt # Undefined THEN LowerBound(c.gt, TRUE)
  ELSE IF c.gte # Undefined THEN LowerBound(c.gte, FALSE)
  ELSE IF c.lt # Undefined THEN UpperBound(c.lt, TRUE)
  ELSE UpperBound(c.lte, FALSE)

parseWhereCondition(condition) ==
  IF ~isWhereConditionObject(condition) THEN Only(condition)
  ELSE LET c == condition IN
    IF c.eq # Undefined THEN Only(c.eq)
    ELSE IF c.between # Undefined THEN Bound(c.between.lo, c.between.hi, FALSE, FALSE)
    ELSE IF c.startsWith # Undefined
      THEN Bound(c.startsWith, Sentinel(c.startsWith), FALSE, FALSE)
    ELSE IF c.gte # Undefined /\ c.lte # Undefined THEN Bound(c.gte, c.lte, FALSE, FALSE)
    ELSE IF c.gt # Undefined /\ c.lt # Undefined THEN Bound(c.gt, c.lt, TRUE, TRUE)
    ELSE IF c.gte # Undefined /\ c.lt # Undefined THEN Bound(c.gte, c.lt, FALSE, TRUE)
    ELSE IF c.gt # Undefined /\ c.lte # Undefined THEN Bound(c.gt, c.lte, TRUE, FALSE)
    ELSE IF c.gt # Undefined \/ c.gte # Undefined \/ c.lt # Undefined \/ c.lte # Undefined
      THEN OneSided(c)
    ELSE NoRange

\* ----------------------------------------------------------- builder objects
\* QueryState, with the class of the builder object that holds it
QueryBuilder ==
  [stage |-> "QueryBuilder", indexName |-> NoIndex, useKey |-> FALSE, range |-> NoRange,
   order |-> "asc", limitCount |-> Undefined, offsetCount |-> 0]

IndexQueryBuilder(indexName, useKey) ==
  [QueryBuilder EXCEPT !.stage = "IndexQueryBuilder", !.indexName = indexName,
                       !.useKey = useKey]

\* QueryBuilderImpl.keyBuilder()
keyBuilder == IndexQueryBuilder(NoIndex, TRUE)

\* IndexQueryBuilderImpl.createFinal(range)
createFinal(b, range) ==
  [stage |-> "FinalQueryBuilder", indexName |-> b.indexName, useKey |-> b.useKey,
   range |-> range, order |-> "asc", limitCount |-> Undefined, offsetCount |-> 0]

\* the builder expression ended with an exception

\* a range-selector call: method(a) or method(a, b)
Sel(method, a, b) == [t |-> "call", method |-> method, a |-> a, b |-> b]

\* IndexQueryBuilderImpl.equals / gt / gte / lt / lte / between / startsWith
SelectorRange(sel) ==
  CASE sel.method = "equals"     -> Only(sel.a)
    [] sel.method = "gt"         -> LowerBound(sel.a, TRUE)
    [] sel.method = "gte"        -> LowerBound(sel.a, FALSE)
    [] sel.method = "lt"         -> UpperBound(sel.a, TRUE)
    [] sel.method = "lte"        -> UpperBound(sel.a, FALSE)
    [] sel.method = "between"    -> Bound(sel.a, sel.b, FALSE, FALSE)
    [] sel.method = "startsWith" -> Bound(sel.a, Sentinel(sel.a), FALSE, FALSE)

\* the methods each builder class defines
Methods(stage) ==
  CASE stage = "QueryBuilder" ->
         {"index", "key", "findAll", "equals", "gt", "gte", "lt", "lte", "between",
          "startsWith"}
    [] stage = "IndexQueryBuilder" ->
         {"equals", "gt", "gte", "lt", "lte", "between", "startsWith",
          "orderBy", "limit", "offset", "findAll", "find"}
    [] stage = "FinalQueryBuilder" ->
         {"orderBy", "limit", "offset", "findAll", "find", "count"}
    [] OTHER -> {}

\* ---------------------------------------------------- a terminal operation
NoRun ==
  [op |-> "none", options |-> Undefined, where |-> Undefined, plan |-> QueryBuilder,
   path |-> "none",
   tx |-> "none", mode |-> "none", txError |-> Null, req |-> "none",
   result |-> Undefined, pos |-> 0, results |-> <<>>, skipped |-> 0, collected |-> 0,
   pstate |-> "none", pvalue |-> Undefined]

\* the store has no defaults: Object.keys(this.defaults).length = 0
NoDefaults == <<>>

\* the parts of the state a specification does not use
QueryIdle ==
  /\ products = {} /\ builder = QueryBuilder /\ query = NoRun
  /\ defaults = NoDefaults /\ base = Undefined /\ branch = "none"
TranslateIdle == cond = Undefined /\ bound = Undefined

\* no openDB call yet
NotOpened == [status |-> "none", stores |-> <<>>, error |-> "", created |-> <<>>,
              ran |-> <<>>]
NoCall == [op |-> "none", store |-> "", receiver |-> 0, names |-> <<>>, error |-> ""]
MigrationIdle ==
  definitions = <<>> /\ origin = <<>> /\ last = NoCall /\ opened = NotOpened

\* ------------------------------------------------------------ operations
NoQuery == <<>>

PutOp(s, k, v) == [type |-> "put", storeName |-> s, key |-> k, value |-> v,
                   indexName |-> "", query |-> NoQuery, count |-> 0]
AddOp(s, k, v) == [type |-> "add", storeName |-> s, key |-> k, value |-> v,
                   indexName |-> "", query |-> NoQuery, count |-> 0]
DeleteOp(s, q) == [type |-> "delete", storeName |-> s, key |-> NoKey, value |-> Absent,
                   indexName |-> "", query |-> q, count |-> 0]
ClearOp(s) == [type |-> "clear", storeName |-> s, key |-> NoKey, value |-> Absent,
               indexName |-> "", query |-> NoQuery, count |-> 0]

GetOp(s, k) == [type |-> "get", storeName |-> s, key |-> k, value |-> Absent,
                indexName |-> "", query |-> NoQuery, count |-> 0]
GetAllOp(s, q, n) == [type |-> "getAll", storeName |-> s, key |-> NoKey, value |-> Absent,
                      indexName |-> "", query |-> q, count |-> n]
GetAllByIndexOp(s, q) == [type |-> "getAllByIndex", storeName |-> s, key |-> NoKey,
                          value |-> Absent, indexName |-> IndexName, query |-> q, count |-> 0]
CountOp(s, q) == [type |-> "count", storeName |-> s, key |-> NoKey, value |-> Absent,
                  indexName |-> "", query |-> q, count |-> 0]

\* contents of the collections when the connection is handed over
InitDb ==
  [s \in Stores |-> IF s = "users" THEN [k \in Keys |-> 3 - k]
                                   ELSE [k \in Keys |-> IF k = 1 THEN 1 ELSE Absent]]

\* A query is absent (<<>>), a single key (<<k>>) or an inclusive range (<<lo, hi>>).
InQuery(x, q) ==
  CASE Len(q) = 0 -> TRUE
    [] Len(q) = 1 -> x = q[1]
    [] OTHER      -> q[1] <= x /\ x <= q[2]

\* ------------------------------------------------- host engine: requests
Record(k, v) == <<k, v>>

RECURSIVE SortByKey(_, _)
SortByKey(S, ks) ==
  IF ks = {} THEN <<>>
  ELSE LET k == CHOOSE x \in ks : \A y \in ks : x <= y
       IN  <<Record(k, S[k])>> \o SortByKey(S, ks \ {k})

\* index order: by index key v, ties by primary key
RECURSIVE SortByIndex(_, _)
SortByIndex(S, ks) ==
  IF ks = {} THEN <<>>
  ELSE LET k == CHOOSE x \in ks : \A y \in ks :
                   S[x] < S[y] \/ (S[x] = S[y] /\ x <= y)
       IN  <<Record(k, S[k])>> \o SortByIndex(S, ks \ {k})

Take(seq, n) == IF n = 0 \/ n >= Len(seq) THEN seq ELSE SubSeq(seq, 1, n)

Present(S) == {k \in Keys : S[k] # Absent}

Result(knd, recs, n) == [kind |-> knd, recs |-> recs, n |-> n]

\* What the engine puts in request.result for a read request on contents S.
EvalRead(op, S) ==
  CASE op.type = "get" ->
         IF S[op.key] # Absent
           THEN Result("record", <<Record(op.key, S[op.key])>>, 0)
           ELSE Result("undefined", <<>>, 0)
    [] op.type = "getAll" ->
         Result("list",
                Take(SortByKey(S, {k \in Present(S) : InQuery(k, op.query)}), op.count), 0)
    [] op.type = "getAllByIndex" ->
         Result("list", SortByIndex(S, {k \in Present(S) : InQuery(S[k], op.query)}), 0)
    [] OTHER ->
         Result("number", <<>>, Cardinality({k \in Present(S) : InQuery(k, op.query)}))

IsWrite(op) == op.type \in {"put", "add", "delete", "clear"}

\* add() on a key that is already present fails with ConstraintError.
WriteFails(op, S) == op.type = "add" /\ S[op.key] # Absent

\* Contents of a collection after a successful write request.
ApplyWrite(op, S) ==
  CASE op.type \in {"put", "add"} -> [S EXCEPT ![op.key] = op.value]
    [] op.type = "delete" -> [k \in Keys |-> IF InQuery(k, op.query) THEN Absent ELSE S[k]]
    [] OTHER -> [k \in Keys |-> Absent]

\* put()/add() of a value without its in-line key throws DataError at the call.
ThrowsAtIssue(op) == op.type \in {"put", "add"} /\ op.key = NoKey


\* -------------------------------------------------- completion bridge
NullError == "null"                       \* transaction.error while unset
AbortedError == "Transaction aborted"     \* new Error('Transaction aborted')

\* Promise resolve / reject functions: only the first call has an effect.
Resolve(t) ==
  IF t.pstate = "pending" THEN [t EXCEPT !.pstate = "fulfilled"] ELSE t

RejectAgain(t, e) == [t EXCEPT !.pstate = "rejected", !.pvalue = e]

Reject(t, e) ==
  IF t.pstate = "pending" THEN [t EXCEPT !.pstate = "rejected", !.pvalue = e] ELSE t

\* transaction.oncomplete = () => resolve()
OnComplete(t) == Resolve(t)

\* transaction.onerror = () => reject(transaction.error)
OnError(t) == Reject(t, t.error)

OnAbortUnset(t) == t

\* transaction.onabort = () => reject(transaction.error ?? new Error('Transaction aborted'))
OnAbort(t) == Reject(t, IF t.error = NullError THEN AbortedError ELSE t.error)

\* promisifyTransaction(transaction): a fresh pending promise, the three handlers attached.
PromisifyTransaction(t) ==
  [t EXCEPT !.hooked = TRUE, !.pstate = "pending", !.pvalue = NullError]

\* The engine dispatches event ev at the transaction; an attached handler runs.
Fire(t, ev) ==
  IF ~t.hooked THEN t
  ELSE LET h == CASE ev = "complete" -> OnComplete(t)
                  [] ev = "error"    -> OnError(t)
                  [] OTHER           -> OnAbort(t)
       IN  [h EXCEPT !.delivered = Append(@, [ev |-> ev, error |-> t.error])]

\* ----------------------------------------------------------- the chains
Value(knd, err, store, scope, results) ==
  [kind |-> knd, err |-> err, store |-> store, scope |-> scope, results |-> results]

NoValue == Value("pending", "", "", <<>>, <<>>)
Thrown(err) == Value("error", err, "", <<>>, <<>>)

NeverEmpty(ops) == FALSE

\* if (operations.length === 0)
IsEmptyQueue(ops) == Len(ops) = 0

\* return []  (read chain)   /   return  (write chain)
EmptyValue(knd) ==
  IF knd = "read" THEN Value("results", "", "", <<>>, <<>>)
                  ELSE Value("void", "", "", <<>>, <<>>)

\* [...new Set(operations.map((op) => op.storeName))]: distinct, first occurrence order
RECURSIVE UsedStores(_)
UsedStores(ops) ==
  IF ops = <<>> THEN <<>>
  ELSE LET front == UsedStores(SubSeq(ops, 1, Len(ops) - 1))
           s == ops[Len(ops)].storeName
       IN  IF \E i \in 1..Len(front) : front[i] = s THEN front ELSE Append(front, s)

Includes(scope, s) == \E i \in 1..Len(scope) : scope[i] = s

NoScopeCheck(used, scope) == ""

\* for (const store of usedStores) if (!storeNames.includes(store)) throw ...
\* the store the loop throws on, "" when the loop ends without throwing
FirstOutOfScope(used, scope) ==
  IF \A i \in 1..Len(used) : Includes(scope, used[i]) THEN ""
  ELSE used[CHOOSE i \in 1..Len(used) :
              /\ ~Includes(scope, used[i])
              /\ \A j \in 1..(i - 1) : Includes(scope, used[j])]

\* new Error(`Store "${store}" is not in the transaction scope. Available stores: ...`)
ScopeError(store, scope) == Value("error", "ScopeViolation", store, scope, <<>>)

UsedScope(c) == UsedStores(operations[c])

\* db.transaction(storeNames, 'readonly' | 'readwrite')
TxScope(c) == storeNames[c]
ReadwriteMode(c) == "readwrite"
TxMode(c) == IF kind[c] = "read" THEN "readonly" ELSE "readwrite"

NoResult == Result("undefined", <<>>, 0)

FirstCallsTx(id, scope, mode) ==
  [call |-> 1, scope |-> scope, mode |-> mode, state |-> "active", reqs |-> <<>>,
   error |-> NullError, hooked |-> FALSE, pstate |-> "none", pvalue |-> NullError,
   delivered |-> <<>>, started |-> FALSE, snap |-> InitDb, after |-> InitDb]

NewTx(id, scope, mode) ==
  [call |-> id, scope |-> scope, mode |-> mode, state |-> "active", reqs |-> <<>>,
   error |-> NullError, hooked |-> FALSE, pstate |-> "none", pvalue |-> NullError,
   delivered |-> <<>>, started |-> FALSE, snap |-> InitDb, after |-> InitDb]

\* database.transaction not called
NoDirect ==
  [pc |-> "none", fn |-> [ops |-> <<>>, returns |-> "none"],
   tx |-> NewTx(0, <<>>, "none"), outcome |-> "none", value |-> "none"]

DirectIdle == direct = NoDirect

\* a database that does not exist: version 0, no object store, nothing written
NoDisk == [version |-> 0, stores |-> {}, applied |-> {}]

\* no indexedDB.open request made, every migration function returns normally
NoUpgrade ==
  [pc |-> "none", disk |-> NoDisk, before |-> NoDisk, version |-> 0, stores |-> <<>>,
   throws |-> {}, rejects |-> {}, ran |-> <<>>, thrown |-> <<>>, rethrown |-> <<>>,
   aborted |-> FALSE, error |-> "", opens |-> 0, runs |-> <<>>, committed |-> {}]

UpgradeIdle == upgrade = NoUpgrade

OpFromEnd(queue, i) == queue[Len(queue) - i]

\* for (const op of operations): the op of the (i+1)-th iteration
NextOp(queue, i) == queue[i + 1]

AwaitInLoop == TRUE

\* whether the loop body gives up the turn after issuing (it contains no await)
IssueSuspends == FALSE

CollectReversed(reqs) == [i \in 1..Len(reqs) |-> reqs[Len(reqs) + 1 - i].result]

\* requests.map((r) => r.result)
CollectResults(reqs) == [i \in 1..Len(reqs) |-> reqs[i].result]

\* What the awaiting execute() does once the bridge promise has settled.
Resume(cl, t) ==
  IF cl.pc # "await" \/ t.pstate \notin {"fulfilled", "rejected"} THEN cl
  ELSE IF t.pstate = "rejected"
    THEN [cl EXCEPT !.pc = "done", !.outcome = "rejected", !.value = Thrown(t.pvalue)]
  ELSE IF t.mode = "readonly"
    THEN [cl EXCEPT !.pc = "done", !.outcome = "fulfilled",
                    !.value = Value("results", "", "", <<>>, CollectResults(t.reqs))]
  ELSE [cl EXCEPT !.pc = "done", !.outcome = "fulfilled", !.value = EmptyValue("write")]


\* ----------------------------------------------------- engine: transactions
Live(t) == t.state \in {"active", "inactive"}
Finished(t) == ~Live(t)

Overlap(a, b) == \E i \in 1..Len(a) : Includes(b, a[i])

Conflict(a, b) ==
  Overlap(a.scope, b.scope) /\ (a.mode = "readwrite" \/ b.mode = "readwrite")

RunsAtOnce(t) == TRUE

\* A transaction runs once every earlier-created conflicting transaction is finished.
CanRun(t) == \A u \in 1..(t - 1) : Conflict(txs[u], txs[t]) => Finished(txs[u])

Pending(t) == {j \in 1..Len(t.reqs) : t.reqs[j].status = "pending"}
FirstPending(t) == CHOOSE j \in Pending(t) : \A k \in Pending(t) : j <= k

\* contents at the start of the transaction
StartDb(t) == IF t.started THEN t.snap ELSE db

\* abort: the collections of the scope go back to their contents at the start
Rollback(t) == [s \in Stores |-> IF Includes(t.scope, s) THEN StartDb(t)[s] ELSE db[s]]

\* ------------------------------------------------------------------ inputs
WriteOps ==
  {PutOp("users", 1, 1), PutOp("users", NoKey, 1), PutOp("posts", 1, 2),
   AddOp("users", 1, 1), DeleteOp("users", <<1>>), ClearOp("users")}

ReadOps ==
  {GetOp("users", 1), GetOp("posts", 2), GetAllOp("users", <<1, 2>>, 1),
   GetAllByIndexOp("users", NoQuery), CountOp("users", NoQuery)}

\* ------------------------------------------------------------------- state
Init ==
  /\ db = InitDb
  /\ kind = [c \in Chains |-> IF c = 1 THEN "write" ELSE "read"]
  /\ \E sc \in ScopeChoices : storeNames = [c \in Chains |-> sc[c]]
  /\ operations = [c \in Chains |-> <<>>]
  /\ calls = <<>>
  /\ txs = <<>>
  /\ running = 0
  /\ QueryIdle
  /\ TranslateIdle
  /\ MigrationIdle
  /\ DirectIdle
  /\ UpgradeIdle

RECURSIVE SumLen(_)
SumLen(cs) ==
  IF cs = {} THEN 0
  ELSE LET c == CHOOSE x \in cs : TRUE IN Len(operations[c]) + SumLen(cs \ {c})

QueuedTotal == SumLen(Chains)

\* chain.put / add / delete / clear / get / getAll / getAllByIndex / count
\* (callers build a chain before they execute it: no enqueue on an executed chain)
Enqueue(c, op) ==
  /\ running = 0
  /\ QueuedTotal < MaxOps
  /\ \A i \in 1..Len(calls) : calls[i].chain # c
  /\ op \in (IF kind[c] = "read" THEN ReadOps ELSE WriteOps)
  /\ operations' = [operations EXCEPT ![c] = Append(@, op)]
  /\ UNCHANGED <<db, kind, storeNames, calls, txs, running>> /\ UNCHANGED <<qvars, tvars, bvars, mvars, dvars, uvars>>

NewCall(c, ops, pc, tx, outcome, value) ==
  [chain |-> c, queue |-> ops, pc |-> pc, tx |-> tx, i |-> 0,
   outcome |-> outcome, value |-> value]

\* chain.execute(), from the call up to the opening of the transaction
Execute(c) ==
  /\ running = 0
  /\ Len(calls) < MaxCalls
  /\ LET ops == operations[c]
         id == Len(calls) + 1
         bad == FirstOutOfScope(UsedStores(ops), storeNames[c])
     IN  IF IsEmptyQueue(ops)
           THEN /\ calls' = Append(calls, NewCall(c, ops, "done", 0, "fulfilled",
                                                  EmptyValue(kind[c])))
                /\ UNCHANGED <<txs, running>>
         ELSE IF bad # ""
           THEN /\ calls' = Append(calls, NewCall(c, ops, "done", 0, "rejected",
                                                  ScopeError(bad, storeNames[c])))
                /\ UNCHANGED <<txs, running>>
         ELSE /\ txs' = Append(txs, NewTx(id, TxScope(c), TxMode(c)))
              /\ calls' = Append(calls, NewCall(c, ops, "issue", Len(txs) + 1,
                                                "pending", NoValue))
              /\ running' = id
  /\ UNCHANGED <<db, kind, storeNames, operations>> /\ UNCHANGED <<qvars, tvars, bvars, mvars, dvars, uvars>>

\* the exception, if any, of tx.objectStore(op.storeName).<request>(...)
IssueError(t, op) ==
  CASE Finished(t)                 -> "InvalidStateError"
    [] ~Includes(t.scope, op.storeName) -> "NotFoundError"
    [] t.state # "active"          -> "TransactionInactiveError"
    [] ThrowsAtIssue(op)           -> "DataError"
    [] OTHER                       -> ""

\* one iteration of the loop over operations
Issue(id) ==
  /\ id \in 1..Len(calls)
  /\ running = id
  /\ calls[id].pc = "issue"
  /\ calls[id].i < Len(calls[id].queue)
  /\ LET cl == calls[id]
         t == txs[cl.tx]
         op == NextOp(cl.queue, cl.i)
         err == IssueError(t, op)
     IN  IF err # ""
           THEN /\ calls' = [calls EXCEPT ![id] = [cl EXCEPT !.pc = "done",
                                 !.outcome = "rejected", !.value = Thrown(err)]]
                /\ txs' = [txs EXCEPT ![cl.tx].state =
                                 IF @ = "active" THEN "inactive" ELSE @]
                /\ running' = 0
         ELSE /\ calls' = [calls EXCEPT ![id].i = @ + 1]
              /\ txs' = [txs EXCEPT ![cl.tx] =
                           [t EXCEPT !.reqs = Append(@, [op |-> op, status |-> "pending",
                                                         result |-> NoResult]),
                                     !.state = IF IssueSuspends THEN "inactive" ELSE @]]
              /\ running' = IF IssueSuspends THEN 0 ELSE id
  /\ UNCHANGED <<db, kind, storeNames, operations>> /\ UNCHANGED <<qvars, tvars, bvars, mvars, dvars, uvars>>

\* await promisifyTransaction(tx): handlers attached, the turn ends
Await(id) ==
  /\ id \in 1..Len(calls)
  /\ running = id
  /\ calls[id].pc = "issue"
  /\ calls[id].i = Len(calls[id].queue)
  /\ calls' = [calls EXCEPT ![id].pc = "await"]
  /\ txs' = [txs EXCEPT ![calls[id].tx] =
               [PromisifyTransaction(@) EXCEPT !.state = "inactive"]]
  /\ running' = 0
  /\ UNCHANGED <<db, kind, storeNames, operations>> /\ UNCHANGED <<qvars, tvars, bvars, mvars, dvars, uvars>>

\* the transaction record changes to nt; its awaiting execute() resumes if settled
Deliver(t, nt) ==
  /\ txs' = [txs EXCEPT ![t] = nt]
  /\ calls' = [calls EXCEPT ![nt.call] = Resume(@, nt)]

\* The engine executes the requests of a transaction in the order issued, on
\* contents d, up to the first failing one: the contents reached, the requests
\* with status and result filled in, and the index of the failed request (0: none).
RECURSIVE RunRequests(_, _, _)
RunRequests(reqs, j, d) ==
  IF j > Len(reqs) THEN [db |-> d, reqs |-> reqs, failed |-> 0]
  ELSE LET op == reqs[j].op
           S == d[op.storeName]
           next == IF ~IsWrite(op)
                     THEN [db |-> d, failed |-> 0,
                           reqs |-> [reqs EXCEPT ![j].status = "done",
                                                 ![j].result = EvalRead(op, S)]]
                   ELSE IF ~WriteFails(op, S)
                     THEN [db |-> [d EXCEPT ![op.storeName] = ApplyWrite(op, S)],
                           failed |-> 0,
                           reqs |-> [reqs EXCEPT ![j].status = "done"]]
                   ELSE [db |-> d, failed |-> j,
                         reqs |-> [reqs EXCEPT ![j].status = "error"]]
       IN  CHOOSE out \in {IF n.failed # 0 THEN n ELSE RunRequests(n.reqs, j + 1, n.db) :
                             n \in {next}} : TRUE

\* the engine runs a transaction: its requests are executed; a failing request
\* gets its error event (transaction.error still unset) and aborts the transaction
EngineRequest(t) ==
  /\ running = 0
  /\ t \in 1..Len(txs)
  /\ txs[t].state = "inactive"
  /\ CanRun(t)
  /\ Pending(txs[t]) # {}
  /\ \E tx \in {[txs[t] EXCEPT !.started = TRUE, !.snap = StartDb(txs[t])]} :
     \E run \in {RunRequests(tx.reqs, 1, db)} :
       IF run.failed = 0
         THEN /\ Deliver(t, [tx EXCEPT !.reqs = run.reqs])
              /\ db' = run.db
         ELSE \E fired \in {Fire([tx EXCEPT !.reqs = run.reqs], "error")} :
                /\ Deliver(t, [fired EXCEPT !.state = "aborting",
                                            !.error = "ConstraintError",
                                            !.after = Rollback(tx)])
                /\ db' = Rollback(tx)
  /\ UNCHANGED <<kind, storeNames, operations, running>> /\ UNCHANGED <<qvars, tvars, bvars, mvars, dvars, uvars>>

\* no request left, but the commit fails: the engine aborts the transaction
\* (contents rolled back, transaction.error set) and its abort event fires
EngineAbort(t) ==
  /\ running = 0
  /\ t \in 1..Len(txs)
  /\ txs[t].state = "inactive"
  /\ CanRun(t)
  /\ Pending(txs[t]) = {}
  /\ LET tx == [txs[t] EXCEPT !.started = TRUE, !.snap = StartDb(txs[t])]
         ab == [tx EXCEPT !.state = "aborted", !.error = "UnknownError",
                          !.after = Rollback(tx)]
     IN  /\ Deliver(t, Fire(ab, "abort"))
         /\ db' = Rollback(tx)
  /\ UNCHANGED <<kind, storeNames, operations, running>> /\ UNCHANGED <<qvars, tvars, bvars, mvars, dvars, uvars>>

\* after a failed request: a request still pending gets its error event (AbortError)
EngineAbortRequest(t) ==
  /\ running = 0
  /\ t \in 1..Len(txs)
  /\ txs[t].state = "aborting"
  /\ Pending(txs[t]) # {}
  /\ LET j == FirstPending(txs[t])
     IN  Deliver(t, Fire([txs[t] EXCEPT !.reqs[j].status = "error"], "error"))
  /\ UNCHANGED <<db, kind, storeNames, operations, running>> /\ UNCHANGED <<qvars, tvars, bvars, mvars, dvars, uvars>>

\* after a failed request: the abort event of the transaction
EngineAbortEvent(t) ==
  /\ running = 0
  /\ t \in 1..Len(txs)
  /\ txs[t].state = "aborting"
  /\ Pending(txs[t]) = {}
  /\ Deliver(t, [Fire(txs[t], "abort") EXCEPT !.state = "aborted"])
  /\ UNCHANGED <<db, kind, storeNames, operations, running>> /\ UNCHANGED <<qvars, tvars, bvars, mvars, dvars, uvars>>

\* no request left: the transaction commits and its complete event fires
EngineComplete(t) ==
  /\ running = 0
  /\ t \in 1..Len(txs)
  /\ txs[t].state = "inactive"
  /\ CanRun(t)
  /\ Pending(txs[t]) = {}
  /\ LET tx == [txs[t] EXCEPT !.started = TRUE, !.snap = StartDb(txs[t]),
                              !.state = "committed", !.after = db]
     IN  Deliver(t, Fire(tx, "complete"))
  /\ UNCHANGED <<db, kind, storeNames, operations, running>> /\ UNCHANGED <<qvars, tvars, bvars, mvars, dvars, uvars>>

Next ==
  \/ \E c \in Chains : \E op \in WriteOps \cup ReadOps : Enqueue(c, op)
  \/ \E c \in Chains : Execute(c)
  \/ \E id \in 1..MaxCalls : Issue(id)
  \/ \E id \in 1..MaxCalls : Await(id)
  \/ \E t \in 1..MaxCalls : EngineRequest(t)
  \/ \E t \in 1..MaxCalls : EngineAbort(t)
  \/ \E t \in 1..MaxCalls : EngineAbortRequest(t)
  \/ \E t \in 1..MaxCalls : EngineAbortEvent(t)
  \/ \E t \in 1..MaxCalls : EngineComplete(t)

Spec == Init /\ [][Next]_vars


\* ------------------------------------------------------------- properties
CallIds == 1..Len(calls)
TxIds == 1..Len(txs)
OwnTxs(id) == {t \in TxIds : txs[t].call = id}
ScopeSet(c) == {storeNames[c][i] : i \in 1..Len(storeNames[c])}
OutOfScope(cl) == {i \in 1..Len(cl.queue) : cl.queue[i].storeName \notin ScopeSet(cl.chain)}
Runnable(cl) == cl.queue # <<>> /\ OutOfScope(cl) = {}

RECURSIVE ApplyAll(_, _)
ApplyAll(ops, d) ==
  IF ops = <<>> THEN d
  ELSE ApplyAll(Tail(ops), [d EXCEPT ![Head(ops).storeName] = ApplyWrite(Head(ops), @)])

SameInScope(t, d1, d2) == \A s \in Stores : Includes(t.scope, s) => d1[s] = d2[s]

\* C1: a settled execute() of a write chain with a non-empty in-scope queue,
\* whose transaction is over, either fulfilled with every queued operation
\* applied, or rejected with the collections as they were at the start.
C1_WriteAtomicity ==
  \A id \in CallIds :
    LET cl == calls[id] IN
      (/\ kind[cl.chain] = "write"
       /\ Runnable(cl)
       /\ cl.outcome # "pending"
       /\ \A t \in OwnTxs(id) : Finished(txs[t]) /\ txs[t].state # "aborting")
      => /\ cl.outcome = "fulfilled" =>
              \E t \in OwnTxs(id) :
                 /\ txs[t].state = "committed"
                 /\ SameInScope(txs[t], txs[t].after, ApplyAll(cl.queue, txs[t].snap))
         /\ cl.outcome = "rejected" =>
              \A t \in OwnTxs(id) : SameInScope(txs[t], txs[t].after, txs[t].snap)

\* C2: an execute() whose queue names a collection outside the declared scope
\* is rejected with an error naming the first such collection and the declared
\* scope, and no transaction is ever opened for it.
C2_ScopeViolation ==
  \A id \in CallIds :
    LET cl == calls[id]
        bad == OutOfScope(cl)
    IN  bad # {} =>
          /\ cl.outcome = "rejected"
          /\ cl.value.err = "ScopeViolation"
          /\ cl.value.store = cl.queue[CHOOSE i \in bad : \A j \in bad : i <= j].storeName
          /\ cl.value.scope = storeNames[cl.chain]
          /\ cl.tx = 0
          /\ OwnTxs(id) = {}

C2_Witness ==
  \E id \in CallIds :
    /\ kind[calls[id].chain] = "write"
    /\ Len(calls[id].queue) = 2
    /\ OutOfScope(calls[id]) = {2}
    /\ calls[id].value.err = "ScopeViolation"
    /\ db = InitDb

\* C3: while an execute() is between opening its transaction and its last
\* issuance it holds the turn and its transaction is active; the requests issued
\* so far are the first operations of the queue, in enqueue order, none of
\* them touched by the engine; at the await every operation has been issued.
C3_UninterruptedIssuance ==
  \A id \in CallIds :
    LET cl == calls[id] IN
      /\ cl.pc = "issue" =>
           /\ running = id
           /\ txs[cl.tx].state = "active"
           /\ Len(txs[cl.tx].reqs) = cl.i
           /\ \A j \in 1..cl.i : /\ txs[cl.tx].reqs[j].op = cl.queue[j]
                                 /\ txs[cl.tx].reqs[j].status = "pending"
      /\ cl.pc = "await" =>
           /\ Len(txs[cl.tx].reqs) = Len(cl.queue)
           /\ \A j \in 1..Len(cl.queue) : txs[cl.tx].reqs[j].op = cl.queue[j]

C3_Witness ==
  \E id \in CallIds : \E other \in CallIds :
    /\ calls[id].pc = "issue"
    /\ calls[id].i = 1
    /\ Len(calls[id].queue) = 2
    /\ calls[other].pc = "await"
    /\ txs[calls[other].tx].state = "inactive"

\* C4: an execute() with a non-empty in-scope queue has exactly one transaction,
\* opened over the whole declared scope, readonly for a read chain and readwrite
\* for a write chain.
C4_OneTransaction ==
  \A id \in CallIds :
    LET cl == calls[id] IN
      Runnable(cl) =>
        /\ Cardinality(OwnTxs(id)) = 1
        /\ cl.tx \in OwnTxs(id)
        /\ txs[cl.tx].scope = storeNames[cl.chain]
        /\ txs[cl.tx].mode = IF kind[cl.chain] = "read" THEN "readonly" ELSE "readwrite"

C4_Witness ==
  \E id \in CallIds :
    /\ Runnable(calls[id])
    /\ storeNames[calls[id].chain] = <<"users", "posts">>
    /\ \A i \in 1..Len(calls[id].queue) : calls[id].queue[i].storeName = "users"
    /\ calls[id].pc = "done"
    /\ txs[calls[id].tx].state = "committed"

\* C5: an execute() on an empty queue is fulfilled (empty sequence for a read
\* chain, nothing for a write chain) and no transaction is opened for it.
C5_EmptyQueue ==
  \A id \in CallIds :
    LET cl == calls[id] IN
      cl.queue = <<>> =>
        /\ cl.outcome = "fulfilled"
        /\ cl.value.kind = IF kind[cl.chain] = "read" THEN "results" ELSE "void"
        /\ cl.value.results = <<>>
        /\ cl.tx = 0
        /\ OwnTxs(id) = {}

C5_Witness ==
  /\ txs = <<>>
  /\ \E a \in CallIds : \E b \in CallIds :
       /\ calls[a].queue = <<>> /\ kind[calls[a].chain] = "read"
       /\ calls[b].queue = <<>> /\ kind[calls[b].chain] = "write"
       /\ calls[a].outcome = "fulfilled" /\ calls[b].outcome = "fulfilled"

\* C6: a fulfilled execute() of a read chain yields one result per queued
\* operation, the i-th being the outcome of the i-th operation on the contents
\* its transaction started from.
C6_ReadAlignment ==
  \A id \in CallIds :
    LET cl == calls[id] IN
      (kind[cl.chain] = "read" /\ cl.outcome = "fulfilled" /\ cl.queue # <<>>) =>
        /\ cl.value.kind = "results"
        /\ Len(cl.value.results) = Len(cl.queue)
        /\ \A i \in 1..Len(cl.queue) :
             cl.value.results[i] =
               EvalRead(cl.queue[i], txs[cl.tx].snap[cl.queue[i].storeName])

C6_Witness ==
  \E id \in CallIds :
    /\ kind[calls[id].chain] = "read"
    /\ calls[id].outcome = "fulfilled"
    /\ Len(calls[id].queue) = 2
    /\ calls[id].queue[1].type # calls[id].queue[2].type
    /\ calls[id].value.results[1] # calls[id].value.results[2]

\* C7: after a fulfilled execute() of a write chain the collections of its
\* scope hold what applying the queue in enqueue order to the contents at the
\* start of the transaction gives.
C7_WriteOrder ==
  \A id \in CallIds :
    LET cl == calls[id] IN
      (kind[cl.chain] = "write" /\ cl.outcome = "fulfilled" /\ cl.queue # <<>>) =>
        /\ txs[cl.tx].state = "committed"
        /\ SameInScope(txs[cl.tx], txs[cl.tx].after, ApplyAll(cl.queue, txs[cl.tx].snap))

C7_Witness ==
  \E id \in CallIds :
    /\ kind[calls[id].chain] = "write"
    /\ calls[id].outcome = "fulfilled"
    /\ calls[id].queue = <<PutOp("users", 1, 1), DeleteOp("users", <<1>>)>>
    /\ txs[calls[id].tx].after["users"][1] = Absent

\* C8: every execute() after the first one on the same chain (with operations
\* queued, all in scope) is rejected and opens no transaction.
C8_OneShot ==
  \A a \in CallIds : \A b \in CallIds :
    (a < b /\ calls[a].chain = calls[b].chain /\ Runnable(calls[b])) =>
      /\ calls[b].outcome = "rejected"
      /\ calls[b].tx = 0
      /\ OwnTxs(b) = {}

\* C9: the bridge promise of a transaction is pending until the first callback
\* is delivered and from then on has the outcome of that first callback,
\* whatever is delivered after it.
C9_SingleResolution ==
  \A t \in TxIds :
    LET tx == txs[t] IN
      tx.hooked =>
        IF tx.delivered = <<>> THEN tx.pstate = "pending"
        ELSE LET first == Head(tx.delivered) IN
          CASE first.ev = "complete" -> tx.pstate = "fulfilled"
            [] first.ev = "error" -> tx.pstate = "rejected" /\ tx.pvalue = first.error
            [] OTHER -> /\ tx.pstate = "rejected"
                        /\ tx.pvalue = IF first.error = NullError THEN AbortedError
                                                                 ELSE first.error

C9_Witness ==
  \E t \in TxIds :
    /\ Len(txs[t].delivered) = 2
    /\ txs[t].delivered[1].ev = "error"
    /\ txs[t].delivered[2].ev = "abort"
    /\ txs[t].delivered[1].error # txs[t].delivered[2].error
    /\ txs[t].pstate = "rejected"
    /\ calls[txs[t].call].outcome = "rejected"

\* C10: once the abort callback of a transaction has been delivered the bridge
\* promise is rejected, with the transaction's error when it has one and with
\* the synthesized 'Transaction aborted' error otherwise.
C10_AbortSynthesis ==
  \A t \in TxIds :
    LET tx == txs[t] IN
      (tx.hooked /\ \E i \in 1..Len(tx.delivered) : tx.delivered[i].ev = "abort") =>
        /\ tx.pstate = "rejected"
        /\ tx.pvalue = IF tx.error = NullError THEN AbortedError ELSE tx.error

\* ------------------------------------------------------------- scheduling
\* Run to completion: the turn of an execute() in progress goes on to its end
\* (every loop iteration, then the await).  The engine serves every transaction
\* it holds: it runs its requests, ends it by commit or by abort, and fires the
\* events that are due.  Callers are under no obligation (Enqueue, Execute).
\* The operations callers enqueue in the runs checked for liveness: a write that
\* succeeds, one that throws when issued, one the engine fails, and two reads.
LiveOps ==
  {PutOp("users", 1, 1), PutOp("users", NoKey, 1), AddOp("users", 1, 1),
   GetOp("users", 1), GetOp("posts", 2)}

LiveNext ==
  \/ \E c \in Chains : \E op \in LiveOps : Enqueue(c, op)
  \/ \E c \in Chains : Execute(c)
  \/ \E id \in 1..MaxCalls : Issue(id)
  \/ \E id \in 1..MaxCalls : Await(id)
  \/ \E t \in 1..MaxCalls : EngineRequest(t)
  \/ \E t \in 1..MaxCalls : EngineAbort(t)
  \/ \E t \in 1..MaxCalls : EngineAbortRequest(t)
  \/ \E t \in 1..MaxCalls : EngineAbortEvent(t)
  \/ \E t \in 1..MaxCalls : EngineComplete(t)

FairSpec ==
  /\ Init
  /\ [][LiveNext]_vars
  /\ \A id \in 1..MaxCalls :
       /\ WF_vars(Issue(id))
       /\ WF_vars(Await(id))
       /\ WF_vars(EngineRequest(id))
       /\ WF_vars(EngineComplete(id) \/ EngineAbort(id))
       /\ WF_vars(EngineAbortRequest(id))
       /\ WF_vars(EngineAbortEvent(id))

\* the engine has fired no event at a transaction whose handlers are missing,
\* unless the execute() that opened it had already settled
HandlersFirst ==
  \A t \in TxIds :
    txs[t].started => (txs[t].hooked \/ calls[txs[t].call].pc = "done")

\* C11: every execute() eventually settles, whichever completion signal its
\* transaction ends with (complete, error, abort), and no signal is fired at a
\* transaction before the bridge's handlers are attached to it.
C11_ChainLiveness ==
  /\ []HandlersFirst
  /\ \A id \in 1..MaxCalls :
       (Len(calls) >= id) ~> (Len(calls) >= id /\ calls[id].outcome # "pending")

\* two calls that awaited the bridge: one settled by the complete signal, the
\* other by the abort signal of a failed commit
C11_Witness ==
  \E a, b \in CallIds :
    /\ calls[a].tx # 0 /\ calls[b].tx # 0
    /\ txs[calls[a].tx].hooked /\ txs[calls[a].tx].state = "committed"
    /\ calls[a].outcome = "fulfilled"
    /\ txs[calls[b].tx].hooked /\ txs[calls[b].tx].state = "aborted"
    /\ txs[calls[b].tx].error = "UnknownError"
    /\ calls[b].outcome = "rejected"

\* ==================================================================== queries
\* Query builder, plan and executor (src/src/query.ts) on one collection with
\* primary key id and an index on the field price.  The host engine lists a
\* source (the collection or an index of it) by key, then by primary key; a
\* cursor opened with direction 'prev' visits the same records from the last
\* one back, 'next' from the first one on.

\* --------------------------------------------------- host engine: reading
Product(id, price) == [id |-> id, price |-> price]

\* the key of a record in the source: indexName ? store.index(indexName) : store
KeyOf(r, indexName) == IF indexName = NoIndex THEN Num(r.id) ELSE Num(r[indexName])

Before(a, b, indexName) ==
  \/ KeyLess(KeyOf(a, indexName), KeyOf(b, indexName))
  \/ (KeyOf(a, indexName) = KeyOf(b, indexName) /\ a.id < b.id)

RECURSIVE Ascending(_, _)
Ascending(S, indexName) ==
  IF S = {} THEN <<>>
  ELSE LET r == CHOOSE x \in S : \A y \in S \ {x} : Before(x, y, indexName)
       IN  <<r>> \o Ascending(S \ {r}, indexName)

RECURSIVE Descending(_, _)
Descending(S, indexName) ==
  IF S = {} THEN <<>>
  ELSE LET r == CHOOSE x \in S : \A y \in S \ {x} : Before(y, x, indexName)
       IN  <<r>> \o Descending(S \ {r}, indexName)

InBound(S, plan) == {r \in S : InRange(KeyOf(r, plan.indexName), plan.range)}

CountWithinLimit(S, plan) ==
  IF plan.limitCount = Undefined THEN Cardinality(InBound(S, plan))
  ELSE IF Cardinality(InBound(S, plan)) < plan.limitCount.n
    THEN Cardinality(InBound(S, plan))
  ELSE plan.limitCount.n

\* source.getAll(range), source.count(range)
GetAll(S, plan) == Ascending(InBound(S, plan), plan.indexName)
CountOf(S, plan) == Cardinality(InBound(S, plan))

\* the records a cursor of source.openCursor(range, direction) visits, in order
CursorOrder(S, plan, direction) ==
  IF direction = "prev" THEN Descending(InBound(S, plan), plan.indexName)
  ELSE Ascending(InBound(S, plan), plan.indexName)

Reverse(seq) == [i \in 1..Len(seq) |-> seq[Len(seq) + 1 - i]]

\* ------------------------------------------------------------- executor
\* offsetCount > 0 || limitCount !== undefined
UsesCursor(plan) == plan.offsetCount > 0 \/ plan.limitCount # Undefined

\* order === 'desc' ? 'prev' : 'next'
Direction(plan) == IF plan.order = "desc" THEN "prev" ELSE "next"

\* resolve / reject of the terminal's promise: the first call settles it
Settle(x, state, v) ==
  IF x.pstate = "pending" THEN [x EXCEPT !.pstate = state, !.pvalue = v] ELSE x

\* resolve(results) of executeQuery; find() hands on results[0]
ResolveResults(x, results) ==
  Settle(x, "fulfilled",
         IF x.op = "find"
           THEN IF results = <<>> THEN Undefined ELSE results[1]
           ELSE Arr(results))

\* new Promise(executor): transaction opened (this.db.transaction(this.storeName,
\* 'readonly')), request issued, handlers attached
StartRun(op, where, plan, path) ==
  [NoRun EXCEPT !.op = op, !.where = where, !.plan = plan, !.path = path,
                !.tx = "open", !.mode = "readonly", !.req = "pending",
                !.pstate = "pending"]

executeQuery(op, where, plan) ==
  StartRun(op, where, plan, IF UsesCursor(plan) THEN "cursor" ELSE "bulk")

\* the call threw: nothing was opened, no promise was returned
ThrownRun(op, where, e) ==
  [NoRun EXCEPT !.op = op, !.where = where, !.pstate = "thrown", !.pvalue = e]

RecordLoses(value) ==
  [f \in DOMAIN defaults \cup DOMAIN value |->
     IF f \in DOMAIN defaults THEN defaults[f] ELSE value[f]]

\* hasDefaults ? { ...this.defaults, ...value } : value
WithDefaults(value) ==
  IF DOMAIN defaults = {} THEN value
  ELSE [f \in DOMAIN defaults \cup DOMAIN value |->
          IF f \in DOMAIN value THEN value[f] ELSE defaults[f]]

SkipNothing(x) == FALSE

\* skipped < offsetCount
SkipsRecord(x) == x.skipped < x.plan.offsetCount

\* request.onsuccess of the cursor path; cursor is the record reached, or Null
OnSuccess(x, cursor) ==
  IF cursor = Null THEN [ResolveResults(x, x.results) EXCEPT !.req = "done"]
  ELSE IF SkipsRecord(x)
    THEN [x EXCEPT !.skipped = @ + 1, !.pos = @ + 1]
  ELSE LET limitCount == x.plan.limitCount
           y == IF limitCount = Undefined \/ x.collected < limitCount.n
                  THEN [x EXCEPT !.results = Append(@, WithDefaults(cursor)),
                                   !.collected = @ + 1]
                  ELSE x
       IN  IF limitCount # Undefined /\ y.collected >= limitCount.n
             THEN [ResolveResults(y, y.results) EXCEPT !.req = "done"]
             ELSE [y EXCEPT !.pos = @ + 1]

KeepOrder(x) == x.result.items

\* bulk path: defaults are applied to request.result, 'desc' reverses it
BulkResults(x) ==
  LET results == [i \in 1..Len(x.result.items) |-> WithDefaults(x.result.items[i])]
  IN  IF x.plan.order = "desc" THEN Reverse(results) ELSE results

\* tx.oncomplete: set on the bulk path and by count(), not on the cursor path
QueryOnComplete(x) ==
  CASE x.path = "bulk"  -> ResolveResults(x, BulkResults(x))
    [] x.path = "count" -> Settle(x, "fulfilled", x.result)
    [] OTHER            -> x

ResolveBuffered(x) == ResolveResults(x, x.results)

\* tx.onerror = () => reject(tx.error)
QueryOnError(x) == Settle(x, "rejected", x.txError)

\* tx.onabort: never set by count() or executeQuery
QueryOnAbort(x) == x

\* ------------------------------------------------------------------ inputs
Contents == {{Product(i, f[i]) : i \in 1..MaxId} : f \in [1..MaxId -> Prices]}

Selections ==
  {Sel("equals", Num(1), Undefined), Sel("equals", Num(2), Undefined),
   Sel("gt", Num(1), Undefined), Sel("gte", Num(2), Undefined),
   Sel("lt", Num(2), Undefined), Sel("lte", Num(1), Undefined),
   Sel("between", Num(1), Num(2)), Sel("between", Num(2), Num(1))}

WhereInputs ==
  {Undefined, Num(0), Num(1), Str(<<>>), False, NoCond,
   [NoCond EXCEPT !.eq = Num(2)],
   [NoCond EXCEPT !.gt = Num(1)],
   [NoCond EXCEPT !.lte = Num(1)],
   [NoCond EXCEPT !.between = Pair(Num(1), Num(2))],
   [NoCond EXCEPT !.between = Pair(Num(2), Num(1))],
   [NoCond EXCEPT !.gte = Num(1), !.lt = Num(2)],
   [NoCond EXCEPT !.gte = Num(2), !.lte = Num(1)],
   [NoCond EXCEPT !.gt = Num(1), !.lt = Num(1)]}

OptionInputs ==
  {[index |-> i, where |-> w, orderBy |-> o, limit |-> l, offset |-> f] :
     i \in {NoIndex, "price"}, w \in WhereInputs, o \in {Undefined, Str("desc")},
     l \in {Undefined} \cup {Num(n) : n \in 0..MaxLimit},
     f \in {Undefined} \cup {Num(n) : n \in 1..MaxOffset}}

\* ----------------------------------------------------------- builder calls
SharedState(kept, where, result) ==
  IF where \in {"kept", "returned"} THEN result ELSE kept

\* what a builder call leaves of the object the caller kept: every call makes a
\* new object with a new state ({ ...this.state, order }); this.state is not
\* assigned, also when the kept object is the receiver
Receiver(kept, where, result) == kept

\* where the object a builder call returned stands to the kept one
Derived(where) ==
  CASE where \in {"kept", "first"}      -> "first"
    [] where \in {"returned", "second"} -> "second"
    [] OTHER                            -> "none"

ChainIdle ==
  /\ db = InitDb
  /\ kind = [c \in Chains |-> IF c = 1 THEN "write" ELSE "read"]
  /\ storeNames = [c \in Chains |-> <<"users", "posts">>]
  /\ operations = [c \in Chains |-> <<>>]
  /\ calls = <<>>
  /\ txs = <<>>
  /\ running = 0

QueryInit ==
  /\ products \in Contents
  /\ builder = QueryBuilder
  /\ query = NoRun
  /\ defaults = NoDefaults /\ base = Undefined /\ branch = "none"
  /\ ChainIdle
  /\ TranslateIdle
  /\ MigrationIdle
  /\ DirectIdle
  /\ UpgradeIdle

\* query().index(indexName)
Index(indexName) ==
  /\ query.op = "none"
  /\ builder.stage = "QueryBuilder"
  /\ builder' = IndexQueryBuilder(indexName, FALSE)
  /\ base' = Receiver(base, branch, builder')
  /\ branch' = Derived(branch)
  /\ UNCHANGED <<products, query, defaults, cvars, tvars, mvars, dvars, uvars>>

\* query().key()
Key ==
  /\ query.op = "none"
  /\ builder.stage = "QueryBuilder"
  /\ builder' = keyBuilder
  /\ base' = Receiver(base, branch, builder')
  /\ branch' = Derived(branch)
  /\ UNCHANGED <<products, query, defaults, cvars, tvars, mvars, dvars, uvars>>

\* a range selector, on an index selector or directly on query()
Select(sel) ==
  /\ query.op = "none"
  /\ builder.stage \in {"QueryBuilder", "IndexQueryBuilder"}
  /\ LET receiver == IF builder.stage = "QueryBuilder" THEN keyBuilder ELSE builder
         range == SelectorRange(sel)
     IN  builder' = IF range = DataError
                    THEN [QueryBuilder EXCEPT !.stage = "thrown", !.range = DataError]
                    ELSE createFinal(receiver, range)
  /\ base' = Receiver(base, branch, builder')
  /\ branch' = Derived(branch)
  /\ UNCHANGED <<products, query, defaults, cvars, tvars, mvars, dvars, uvars>>

\* the plan a modifier or a terminal works on: an index selector makes its
\* final builder first (createFinal()), query().findAll() an unscoped one
PlanOf(b) ==
  CASE b.stage = "QueryBuilder"      -> createFinal(IndexQueryBuilder(NoIndex, FALSE), NoRange)
    [] b.stage = "IndexQueryBuilder" -> createFinal(b, NoRange)
    [] OTHER                         -> b

\* orderBy(order): { ...this.state, order }
orderBy(b, order) == [PlanOf(b) EXCEPT !.order = order]

limitFromStart(b, count) ==
  [PlanOf(b) EXCEPT !.limitCount = Num(count), !.offsetCount = 0]

\* limit(count): { ...this.state, limitCount: count }
limit(b, count) == [PlanOf(b) EXCEPT !.limitCount = Num(count)]

\* offset(count): { ...this.state, offsetCount: count }
offset(b, count) == [PlanOf(b) EXCEPT !.offsetCount = count]

OrderBy(order) ==
  /\ query.op = "none"
  /\ builder.stage \in {"IndexQueryBuilder", "FinalQueryBuilder"}
  /\ builder' = orderBy(builder, order)
  /\ base' = Receiver(base, branch, builder')
  /\ branch' = Derived(branch)
  /\ UNCHANGED <<products, query, defaults, cvars, tvars, mvars, dvars, uvars>>

Limit(count) ==
  /\ query.op = "none"
  /\ builder.stage \in {"IndexQueryBuilder", "FinalQueryBuilder"}
  /\ builder' = limit(builder, count)
  /\ base' = Receiver(base, branch, builder')
  /\ branch' = Derived(branch)
  /\ UNCHANGED <<products, query, defaults, cvars, tvars, mvars, dvars, uvars>>

Offset(count) ==
  /\ query.op = "none"
  /\ builder.stage \in {"IndexQueryBuilder", "FinalQueryBuilder"}
  /\ builder' = offset(builder, count)
  /\ base' = Receiver(base, branch, builder')
  /\ branch' = Derived(branch)
  /\ UNCHANGED <<products, query, defaults, cvars, tvars, mvars, dvars, uvars>>


\* calling a method the object does not have: TypeError, x.m is not a function
FindAll ==
  /\ query.op = "none"
  /\ builder.stage # "thrown"
  /\ query' = IF "findAll" \in Methods(builder.stage)
                THEN executeQuery("findAll", Undefined, PlanOf(builder))
                ELSE ThrownRun("findAll", Undefined, TypeError)
  /\ UNCHANGED <<products, builder, cvars, tvars, bvars, mvars, dvars, uvars>>

Find ==
  /\ query.op = "none"
  /\ builder.stage # "thrown"
  /\ query' = IF "find" \in Methods(builder.stage)
                THEN executeQuery("find", Undefined,
                                  [PlanOf(builder) EXCEPT !.limitCount = Num(1)])
                ELSE ThrownRun("find", Undefined, TypeError)
  /\ UNCHANGED <<products, builder, cvars, tvars, bvars, mvars, dvars, uvars>>

Count ==
  /\ query.op = "none"
  /\ builder.stage # "thrown"
  /\ query' = IF "count" \in Methods(builder.stage)
                THEN StartRun("count", Undefined, PlanOf(builder), "count")
                ELSE ThrownRun("count", Undefined, TypeError)
  /\ UNCHANGED <<products, builder, cvars, tvars, bvars, mvars, dvars, uvars>>

\* where ? parseWhereCondition(where) : undefined
WhereRange(where) == IF Truthy(where) THEN parseWhereCondition(where) ELSE NoRange

AscendingPlan(o, range) ==
  [stage |-> "FinalQueryBuilder", indexName |-> o.index, useKey |-> FALSE,
   range |-> range, order |-> "asc", limitCount |-> o.limit,
   offsetCount |-> IF o.offset = Undefined THEN 0 ELSE o.offset.n]

\* the QueryState query(options) builds, defaults orderBy = 'asc', offset = 0
OptionsPlan(o, range) ==
  [stage |-> "FinalQueryBuilder", indexName |-> o.index, useKey |-> FALSE,
   range |-> range,
   order |-> IF o.orderBy = Undefined THEN "asc" ELSE o.orderBy.s,
   limitCount |-> o.limit,
   offsetCount |-> IF o.offset = Undefined THEN 0 ELSE o.offset.n]

\* query(options): object style
Query(o) ==
  /\ query.op = "none"
  /\ builder.stage = "QueryBuilder"
  /\ LET range == WhereRange(o.where)
     IN  query' = [IF range = DataError THEN ThrownRun("query", o.where, DataError)
                   ELSE executeQuery("query", o.where, OptionsPlan(o, range))
                     EXCEPT !.options = o]
  /\ UNCHANGED <<products, builder, cvars, tvars, bvars, mvars, dvars, uvars>>

\* ---------------------------------------------- host engine: the transaction
\* the cursor reaches its next record, or the end: success event at the request
CursorSuccess ==
  /\ query.tx = "open" /\ query.path = "cursor" /\ query.req = "pending"
  /\ \E seq \in {CursorOrder(products, query.plan, Direction(query.plan))} :
       query' = OnSuccess(query, IF query.pos < Len(seq) THEN seq[query.pos + 1]
                                 ELSE Null)
  /\ UNCHANGED <<products, builder, cvars, tvars, bvars, mvars, dvars, uvars>>

\* getAll / count is served: request.result is set (no handler on the request)
RequestSuccess ==
  /\ query.tx = "open" /\ query.path \in {"bulk", "count"} /\ query.req = "pending"
  /\ query' = [query EXCEPT !.req = "done",
                 !.result = IF query.path = "count"
                              THEN Num(CountOf(products, query.plan))
                              ELSE Arr(GetAll(products, query.plan))]
  /\ UNCHANGED <<products, builder, cvars, tvars, bvars, mvars, dvars, uvars>>

\* the engine fails the request with error e: its error event bubbles to the
\* transaction while tx.error is still unset, then the transaction aborts with e
RequestError(e) ==
  /\ query.tx = "open" /\ query.req = "pending"
  /\ query' = [QueryOnAbort([QueryOnError(query) EXCEPT !.txError = e])
                 EXCEPT !.req = "error", !.tx = "aborted"]
  /\ UNCHANGED <<products, builder, cvars, tvars, bvars, mvars, dvars, uvars>>

\* no request left: the transaction commits and its complete event fires
TxComplete ==
  /\ query.tx = "open" /\ query.req = "done"
  /\ query' = [QueryOnComplete(query) EXCEPT !.tx = "committed"]
  /\ UNCHANGED <<products, builder, cvars, tvars, bvars, mvars, dvars, uvars>>

\* no request left, but the transaction is aborted (a failed commit, with its
\* error, or an abort that reports none): only the abort event fires
TxAbort(e) ==
  /\ query.tx = "open" /\ query.req = "done"
  /\ query' = [QueryOnAbort([query EXCEPT !.txError = e]) EXCEPT !.tx = "aborted"]
  /\ UNCHANGED <<products, builder, cvars, tvars, bvars, mvars, dvars, uvars>>

UnknownError == DOMException("UnknownError")

QueryNext ==
  \/ Index("price")
  \/ Key
  \/ \E sel \in Selections : Select(sel)
  \/ \E order \in {"asc", "desc"} : OrderBy(order)
  \/ \E count \in 0..MaxLimit : Limit(count)
  \/ \E count \in 0..MaxOffset : Offset(count)
  \/ FindAll
  \/ Find
  \/ Count
  \/ \E o \in OptionInputs : Query(o)
  \/ CursorSuccess
  \/ RequestSuccess
  \/ RequestError(UnknownError)
  \/ TxComplete
  \/ \E e \in {Null, UnknownError} : TxAbort(e)

QuerySpec == QueryInit /\ [][QueryNext]_vars

\* The engine serves the transaction it holds: it answers the pending request
\* and ends the transaction, by commit or by abort.  Callers are under no
\* obligation to call anything.
QueryFairSpec ==
  /\ QueryInit
  /\ [][QueryNext]_vars
  /\ WF_vars(CursorSuccess \/ RequestSuccess \/ RequestError(UnknownError))
  /\ WF_vars(TxComplete \/ \E e \in {Null, UnknownError} : TxAbort(e))

\* ------------------------------------------------------- claims on queries
\* C12: the promise a query terminal returned (findAll, find, count, on the
\* bulk path and on the cursor path) is eventually fulfilled or rejected,
\* whatever way its transaction ends: commit, a failed request, an abort.
C12_QueryLiveness ==
  (query.pstate = "pending") ~> (query.pstate \in {"fulfilled", "rejected"})

\* C13: when the engine fails a request of a chain's transaction with error E,
\* the promise of the bridge, and with it the execute() call, is rejected with
\* E itself (not with an empty value or another error), and no operation of the
\* queue is issued a second time.
C13_VerbatimFailure ==
  \A t \in TxIds :
    LET tx == txs[t] IN
      /\ Len(tx.reqs) <= Len(calls[tx.call].queue)
      /\ (/\ tx.hooked
          /\ tx.state \in {"aborting", "aborted"}
          /\ \E j \in 1..Len(tx.reqs) : tx.reqs[j].status = "error")
         => /\ tx.pstate = "rejected"
            /\ tx.pvalue = tx.error
            /\ calls[tx.call].outcome = "rejected"
            /\ calls[tx.call].value = Thrown(tx.error)

\* ------------------------------------------ the outcome of a plan, end to end
\* the cursor path run to its end, every request succeeding
RECURSIVE Walk(_, _)
Walk(x, seq) ==
  IF x.req # "pending" THEN x
  ELSE Walk(OnSuccess(x, IF x.pos < Len(seq) THEN seq[x.pos + 1] ELSE Null), seq)

\* what findAll() on plan resolves with when its transaction commits
FindAllOutcome(S, plan) ==
  IF UsesCursor(plan)
    THEN Walk(executeQuery("findAll", Undefined, plan),
              CursorOrder(S, plan, Direction(plan))).results
    ELSE BulkResults([executeQuery("findAll", Undefined, plan)
                        EXCEPT !.result = Arr(GetAll(S, plan))])

\* the records of S whose key on the plan's index lies in the plan's bound
Matching(S, plan) == {r \in S : InRange(KeyOf(r, plan.indexName), plan.range)}

\* ... as a sequence in the plan's order
MatchingInOrder(S, plan) ==
  IF plan.order = "desc" THEN Reverse(Ascending(Matching(S, plan), plan.indexName))
  ELSE Ascending(Matching(S, plan), plan.indexName)

Min(a, b) == IF a < b THEN a ELSE b

\* positions [O, O+L) of seq, [O, N) without a limit
Page(seq, O, limitCount) ==
  LET N == Len(seq)
      hi == IF limitCount = Undefined THEN N ELSE Min(N, O + limitCount.n)
  IN  IF O >= hi THEN <<>> ELSE SubSeq(seq, O + 1, hi)

IsFindAll == query.op \in {"findAll", "query"} /\ query.pstate = "fulfilled"

\* C14: findAll() resolves with the elements at positions [O, O+L) of the
\* matching records in the chosen order ([O, N) without a limit); its length is
\* L when O+L <= N, 0 when O >= N and N-O when O < N < O+L.
C14_Pagination ==
  IsFindAll =>
    LET plan == query.plan
        full == MatchingInOrder(products, plan)
        N == Len(full)
        O == plan.offsetCount
        items == query.pvalue.items
    IN  /\ items = Page(full, O, plan.limitCount)
        /\ items = FindAllOutcome(products, plan)
        /\ plan.limitCount # Undefined =>
             LET L == plan.limitCount.n
             IN  Len(items) = IF O + L <= N THEN L ELSE IF O >= N THEN 0 ELSE N - O
        /\ plan.limitCount = Undefined => Len(items) = IF O >= N THEN 0 ELSE N - O

\* a descending page cut short by the end: O < N < O + L
C14_Witness ==
  /\ IsFindAll
  /\ query.path = "cursor"
  /\ query.plan.order = "desc"
  /\ query.plan.offsetCount = 1
  /\ query.plan.limitCount = Num(2)
  /\ Cardinality(Matching(products, query.plan)) = 2
  /\ Len(query.pvalue.items) = 1

\* C15: findAll() in descending order resolves with the reverse of what it
\* resolves with in ascending order, also when records share an index key, and
\* on the bulk path (no limit, offset 0) this is the sequence a backward cursor
\* over the same bound visits.
C15_DescReversesAsc ==
  (IsFindAll /\ query.plan.order = "desc" /\ query.path = "bulk") =>
    /\ query.pvalue.items =
         Reverse(FindAllOutcome(products, [query.plan EXCEPT !.order = "asc"]))
    /\ query.pvalue.items = CursorOrder(products, query.plan, "prev")

\* a descending findAll over the index, two records sharing a price
C15_Witness ==
  /\ IsFindAll /\ query.plan.order = "desc" /\ query.path = "bulk"
  /\ query.plan.indexName = "price"
  /\ Len(query.pvalue.items) >= 2
  /\ query.pvalue.items[1].price = query.pvalue.items[2].price

\* C16: count() resolves with the number of records whose key on the chosen
\* index or primary key lies in the plan's bound, whatever order, limit and
\* offset the plan carries.
C16_Count ==
  (query.op = "count" /\ query.pstate = "fulfilled") =>
    query.pvalue = Num(Cardinality(Matching(products, query.plan)))

\* a count of two on a plan that carries limit 1, offset 1, descending order
C16_Witness ==
  /\ query.op = "count" /\ query.pstate = "fulfilled"
  /\ query.plan.limitCount = Num(1)
  /\ query.plan.offsetCount = 1
  /\ query.plan.order = "desc"
  /\ query.pvalue = Num(2)

\* C19: a bare non-object value v as the where of query(options), 0, '' and
\* false included, scopes the query to equals(v): the plan is never the
\* unbounded scan and every record returned has key v on the chosen index.
C19_BareValueEquals ==
  (query.op = "query" /\ query.where.t \in {"number", "string", "boolean"}) =>
    /\ query.pstate # "thrown" => query.plan.range = KeyRange(query.where, query.where,
                                                                FALSE, FALSE)
    /\ query.pstate = "fulfilled" =>
         \A i \in 1..Len(query.pvalue.items) :
           KeyOf(query.pvalue.items[i], query.plan.indexName) = query.where

\* C20: findAll, find and count called on an index selector (index(name),
\* key()) or on query() itself, with no range selector before, run over the
\* unbounded range: every record in ascending order, the first of them, their
\* number.
C20_TerminalWithoutRange ==
  (query.op \in {"findAll", "find", "count"}
     /\ builder.stage \in {"QueryBuilder", "IndexQueryBuilder"}) =>
    /\ query.pstate # "thrown"
    /\ query.plan.range = NoRange
    /\ query.pstate = "fulfilled" =>
         LET all == Ascending(products, query.plan.indexName)
         IN  query.pvalue = CASE query.op = "findAll" -> Arr(all)
                              [] query.op = "find" -> all[1]
                              [] OTHER -> Num(Len(all))

\* ====================================================== builders that are kept
\* A caller keeps a builder in a variable, chains calls from it, comes back to
\* the kept builder and chains other calls.  The store carries default values.

\* const kept = <builder expression>
Keep ==
  /\ query.op = "none"
  /\ branch = "none"
  /\ builder.stage # "thrown"
  /\ base' = builder
  /\ branch' = "kept"
  /\ UNCHANGED <<products, builder, query, defaults, cvars, tvars, mvars, dvars, uvars>>

\* the next expression starts from the kept builder again
Back ==
  /\ query.op = "none"
  /\ branch = "first"
  /\ builder' = base
  /\ branch' = "returned"
  /\ UNCHANGED <<products, query, defaults, base, cvars, tvars, mvars, dvars, uvars>>

BuilderInit ==
  /\ products \in Contents
  /\ builder = QueryBuilder
  /\ query = NoRun
  /\ defaults \in {NoDefaults, [price |-> 9, stock |-> 0]}
  /\ base = Undefined
  /\ branch = "none"
  /\ ChainIdle
  /\ TranslateIdle
  /\ MigrationIdle
  /\ DirectIdle
  /\ UpgradeIdle

BuilderNext ==
  \/ Index("price")
  \/ Key
  \/ \E sel \in {Sel("equals", Num(1), Undefined), Sel("gte", Num(2), Undefined)} :
       Select(sel)
  \/ OrderBy("desc")
  \/ Limit(MaxLimit - 1)
  \/ Offset(MaxOffset)
  \/ Keep
  \/ Back
  \/ FindAll
  \/ Find
  \/ CursorSuccess
  \/ RequestSuccess
  \/ TxComplete

BuilderSpec == BuilderInit /\ [][BuilderNext]_vars

\* the plan a terminal of builder b runs
TerminalPlan(b, op) ==
  IF op = "find" THEN [PlanOf(b) EXCEPT !.limitCount = Num(1)] ELSE PlanOf(b)

\* C21: every builder call returns a new plan and leaves the receiver's plan
\* unchanged: a builder the caller kept stays as it was whatever is called on
\* it or on builders derived from it, so a terminal on the kept builder, or on
\* a second branch from it, runs the plan it would run without the first branch.
C21_BuilderImmutability ==
  /\ [][base' = base \/ (base = Undefined /\ base' = builder /\ builder' = builder)]_vars
  /\ [](branch \in {"kept", "returned"} => builder = base)
  /\ []((branch \in {"kept", "returned"} /\ query.pstate \in {"pending", "fulfilled"})
          => query.plan = TerminalPlan(base, query.op))

\* findAll on a second branch of a kept builder, after a first branch that
\* other calls were made on
C21_Witness ==
  /\ branch = "second"
  /\ base.stage = "FinalQueryBuilder"
  /\ builder # base
  /\ query.op = "findAll" /\ query.pstate = "fulfilled"
  /\ query.plan.range = base.range

\* what a fulfilled findAll / find handed over, as a sequence of records
Returned ==
  IF query.op = "find"
    THEN (IF query.pvalue = Undefined THEN <<>> ELSE <<query.pvalue>>)
    ELSE query.pvalue.items

\* C22: every record findAll or find returns is the stored record with the
\* store defaults under it: the record's own fields as stored, the fields it
\* lacks from the defaults; the records returned and their order are those of
\* the plan without defaults, on the bulk path and on the cursor path alike.
C22_DefaultOverlay ==
  (query.op \in {"findAll", "find"} /\ query.pstate = "fulfilled") =>
    LET raw == Page(MatchingInOrder(products, query.plan), query.plan.offsetCount,
                    query.plan.limitCount)
    IN  /\ Len(Returned) = Len(raw)
        /\ \A i \in 1..Len(raw) :
             /\ DOMAIN Returned[i] = DOMAIN raw[i] \cup DOMAIN defaults
             /\ \A f \in DOMAIN raw[i] : Returned[i][f] = raw[i][f]
             /\ \A f \in DOMAIN defaults \ DOMAIN raw[i] : Returned[i][f] = defaults[f]

\* a record read by the cursor: its stored price, the default stock
C22_Witness ==
  /\ query.op = "findAll" /\ query.pstate = "fulfilled" /\ query.path = "cursor"
  /\ defaults # NoDefaults
  /\ Len(Returned) >= 1
  /\ Returned[1].stock = defaults.stock
  /\ Returned[1].price # defaults.price
  /\ \E r \in products : r.id = Returned[1].id /\ r.price = Returned[1].price

\* C23: find() resolves with the first element of the sequence findAll()
\* resolves with on the same builder (same index, bound, order, limit and
\* offset), and with undefined when that sequence is empty.
C23_FindIsFirstOfFindAll ==
  (query.op = "find" /\ query.pstate = "fulfilled") =>
    LET all == FindAllOutcome(products, PlanOf(builder))
    IN  query.pvalue = IF all = <<>> THEN Undefined ELSE all[1]

\* the operators a condition object carries
Operators(c) ==
  {f \in {"eq", "gt", "gte", "lt", "lte", "between", "startsWith"} : c[f] # Undefined}

\* the range-selector call that says what a single-operator condition says
SelectorOf(c) ==
  LET f == CHOOSE g \in Operators(c) : TRUE
  IN  CASE f = "eq"      -> Sel("equals", c.eq, Undefined)
        [] f = "between" -> Sel("between", c.between.lo, c.between.hi)
        [] OTHER         -> Sel(f, c[f], Undefined)

\* the plan of query().index(name) or query().key(), then the selector, then
\* orderBy, limit and offset where the options give them
ChainPlan(o, sel) ==
  [createFinal(IF o.index = NoIndex THEN keyBuilder
               ELSE IndexQueryBuilder(o.index, FALSE), SelectorRange(sel))
     EXCEPT !.order = IF o.orderBy = Undefined THEN @ ELSE o.orderBy.s,
            !.limitCount = IF o.limit = Undefined THEN @ ELSE o.limit,
            !.offsetCount = IF o.offset = Undefined THEN @ ELSE o.offset.n]

\* C24: query({index, where, orderBy, limit, offset}) with a single-operator
\* condition resolves with the sequence that the builder chain with the same
\* index (the primary key when index is omitted), the same condition as a
\* range selector, the same order, limit and offset and findAll() resolves
\* with, on the same collection; it is refused where the selector is refused.
C24_StylesAgree ==
  (query.op = "query" /\ query.where.t = "object"
     /\ Cardinality(Operators(query.where)) = 1) =>
    LET sel == SelectorOf(query.where)
    IN  /\ query.pstate = "thrown" <=> SelectorRange(sel) = DataError
        /\ query.pstate = "fulfilled" =>
             query.pvalue.items = FindAllOutcome(products, ChainPlan(query.options, sel))

\* { index: 'price', where: { between: [1, 2] }, orderBy: 'desc', limit, offset }
C24_Witness ==
  /\ query.op = "query" /\ query.pstate = "fulfilled"
  /\ query.where = [NoCond EXCEPT !.between = Pair(Num(1), Num(2))]
  /\ query.plan.indexName = "price"
  /\ query.plan.order = "desc"
  /\ query.plan.limitCount = Num(2)
  /\ query.plan.offsetCount = 1
  /\ Len(query.pvalue.items) = 2
  /\ query.pvalue.items[1].price = 2 /\ query.pvalue.items[2].price = 1

\* ============================================ chains and a query, one connection
\* execute() calls of the chains and a query terminal on the same connection,
\* in every interleaving of their turns with the events of the engine.
SharedNext ==
  \/ LiveNext
  \/ FindAll
  \/ RequestSuccess
  \/ TxComplete

SharedSpec == Init /\ [][SharedNext]_vars

\* C25: each execute() call opens a transaction of its own, and every request
\* of a call is issued on the transaction this call opened, never on one that
\* another call opened: the requests of a transaction are, in order, the
\* operations of the queue of the one call that opened it.  A query terminal
\* issues its request on the transaction it opened, whatever the chains do.
C25_OwnTransaction ==
  /\ \A id \in 1..Len(calls) :
       calls[id].tx # 0 =>
         /\ calls[id].tx \in 1..Len(txs)
         /\ txs[calls[id].tx].call = id
         /\ \A other \in 1..Len(calls) : calls[other].tx = calls[id].tx => other = id
  /\ \A t \in 1..Len(txs) :
       LET cl == calls[txs[t].call]
       IN  /\ cl.tx = t
           /\ Len(txs[t].reqs) = cl.i
           /\ \A j \in 1..Len(txs[t].reqs) : txs[t].reqs[j].op = cl.queue[j]
  /\ query.req # "none" => query.tx # "none"

\* two calls with different queues, each with its requests on its own live
\* transaction, while the transaction of a query is open
C25_Witness ==
  /\ Len(calls) = 2 /\ Len(txs) = 2
  /\ calls[1].queue # calls[2].queue
  /\ \A t \in 1..2 : Live(txs[t]) /\ Len(txs[t].reqs) >= 1
  /\ query.tx = "open" /\ query.req = "done"

\* C26: on the cursor path findAll / find never fulfils with the records
\* buffered so far: when the request fails after some records were collected
\* and before the cursor ended or the limit was met, the promise is rejected,
\* and whenever it is fulfilled its value is the complete page of the plan.
C26_NoPartialSuccess ==
  (query.path = "cursor" /\ query.op \in {"findAll", "find", "query"}) =>
    /\ query.req = "error" => query.pstate = "rejected"
    /\ query.pstate = "fulfilled" =>
         Returned = Page(MatchingInOrder(products, query.plan), query.plan.offsetCount,
                         query.plan.limitCount)

\* a record was buffered, a second one was due, the request failed
C26_Witness ==
  /\ query.path = "cursor" /\ query.op = "findAll"
  /\ query.plan.limitCount = Num(2)
  /\ Len(query.results) = 1
  /\ Cardinality(Matching(products, query.plan)) >= 2 + query.plan.offsetCount
  /\ query.req = "error" /\ query.tx = "aborted"
  /\ query.pstate = "rejected"

\* ================================================================ translator
\* parseWhereCondition and the range selectors as functions: a condition goes
\* in, a key range (or DataError, or no range) comes out.
Untranslated == [t |-> "none"]

RECURSIVE Strings(_)
Strings(n) == IF n = 0 THEN {<<>>}
              ELSE Strings(n - 1) \cup {Append(s, u) : s \in Strings(n - 1), u \in Units}

Prefixes == {Str(s) : s \in Strings(MaxLen)}
Endpoints == {Num(1), Num(2)}

Conditions ==
  {[t |-> "object", eq |-> e, between |-> b, startsWith |-> p,
    gte |-> ge, lte |-> le, gt |-> g, lt |-> l] :
     e \in {Undefined} \cup Endpoints, b \in {Undefined} \cup {Pair(x, y) : x, y \in Endpoints},
     p \in {Undefined} \cup Prefixes, ge \in {Undefined} \cup Endpoints,
     le \in {Undefined} \cup Endpoints, g \in {Undefined} \cup Endpoints,
     l \in {Undefined} \cup Endpoints}

SelectorCalls ==
  Selections \cup {Sel("startsWith", p, Undefined) : p \in Prefixes}

TranslateInit ==
  /\ cond \in Conditions \cup SelectorCalls \cup {Num(0), Num(1), Str(<<>>), False}
  /\ bound = Untranslated
  /\ ChainIdle
  /\ QueryIdle
  /\ MigrationIdle
  /\ DirectIdle
  /\ UpgradeIdle

\* parseWhereCondition(cond)
ParseWhere ==
  /\ bound = Untranslated
  /\ cond.t # "call"
  /\ bound' = parseWhereCondition(cond)
  /\ UNCHANGED <<cond, cvars, qvars, bvars, mvars, dvars, uvars>>

\* keyBuilder().<selector>(...) up to the IDBKeyRange it makes
CallSelector ==
  /\ bound = Untranslated
  /\ cond.t = "call"
  /\ bound' = SelectorRange(cond)
  /\ UNCHANGED <<cond, cvars, qvars, bvars, mvars, dvars, uvars>>

TranslateNext == ParseWhere \/ CallSelector

TranslateSpec == TranslateInit /\ [][TranslateNext]_vars

Has(c, fields) == \A f \in fields : c[f] # Undefined

\* the variants in the order of precedence: the fields that select the
\* variant, then lower, upper, lowerOpen, upperOpen
Variants(c) ==
  << <<{"eq"}, c.eq, c.eq, FALSE, FALSE>>,
     <<{"between"}, IF c.between = Undefined THEN Undefined ELSE c.between.lo,
                    IF c.between = Undefined THEN Undefined ELSE c.between.hi,
                    FALSE, FALSE>>,
     <<{"startsWith"}, c.startsWith,
                       IF c.startsWith = Undefined THEN Undefined
                       ELSE Str(c.startsWith.s \o <<UFFFF>>), FALSE, FALSE>>,
     <<{"gte", "lte"}, c.gte, c.lte, FALSE, FALSE>>,
     <<{"gt", "lt"}, c.gt, c.lt, TRUE, TRUE>>,
     <<{"gte", "lt"}, c.gte, c.lt, FALSE, TRUE>>,
     <<{"gt", "lte"}, c.gt, c.lte, TRUE, FALSE>>,
     <<{"gt"}, c.gt, Undefined, TRUE, TRUE>>,
     <<{"gte"}, c.gte, Undefined, FALSE, TRUE>>,
     <<{"lt"}, Undefined, c.lt, TRUE, TRUE>>,
     <<{"lte"}, Undefined, c.lte, TRUE, FALSE>> >>

Matches(c) == {i \in 1..Len(Variants(c)) : Has(c, Variants(c)[i][1])}

FirstVariant(c) == CHOOSE i \in Matches(c) : \A j \in Matches(c) : i <= j

\* a bound the engine refuses: lower above upper, or equal with an open end
Malformed(v) ==
  /\ v[2] # Undefined /\ v[3] # Undefined
  /\ \/ KeyLess(v[3], v[2])
     \/ (v[2] = v[3] /\ (v[4] \/ v[5]))

\* C17: parseWhereCondition returns the bound of the first variant, in the
\* order equals > between > startsWith > (gte & lte) > (gt & lt) > (gte & lt) >
\* (gt & lte) > gt > gte > lt > lte, whose fields are present, with that
\* variant's endpoints and open flags; with none of the fields, no bound.
C17_Precedence ==
  (cond.t = "object" /\ bound # Untranslated) =>
    IF Matches(cond) = {} THEN bound = NoRange
    ELSE LET v == Variants(cond)[FirstVariant(cond)]
         IN  IF Malformed(v) THEN bound = DataError
             ELSE bound = KeyRange(v[2], v[3], v[4], v[5])

\* gte, lte, gt and lt all present: the inclusive bound [gte, lte] is chosen
C17_Witness ==
  /\ cond.t = "object"
  /\ Has(cond, {"gte", "lte", "gt", "lt"})
  /\ cond.eq = Undefined /\ cond.between = Undefined /\ cond.startsWith = Undefined
  /\ cond.gt # cond.gte
  /\ bound = KeyRange(cond.gte, cond.lte, FALSE, FALSE)

IsPrefix(p, s) == Len(p) <= Len(s) /\ SubSeq(s, 1, Len(p)) = p

\* the prefix of a startsWith translation in progress, Undefined if it is none
PrefixOf(c) ==
  IF c.t = "call" THEN (IF c.method = "startsWith" THEN c.a ELSE Undefined)
  ELSE IF c.t = "object" /\ c.eq = Undefined /\ c.between = Undefined THEN c.startsWith
  ELSE Undefined

\* C18: startsWith(p) translates to the inclusive bound [p, p + U+FFFF], and a
\* string key whose code units are all below U+FFFF lies in that bound exactly
\* when p is a prefix of it (p itself and the empty prefix included).
C18_PrefixBound ==
  (PrefixOf(cond) # Undefined /\ bound # Untranslated) =>
    /\ bound = KeyRange(PrefixOf(cond), Str(PrefixOf(cond).s \o <<UFFFF>>), FALSE, FALSE)
    /\ \A k \in {Str(s) : s \in Strings(MaxLen + 1)} : InRange(k, bound) <=> IsPrefix(PrefixOf(cond).s, k.s)

\* startsWith('a') translated; 'a' and 'ab' are inside, 'b' is not
C18_Witness ==
  /\ cond = Sel("startsWith", Str(<<97>>), Undefined)
  /\ bound # Untranslated
  /\ InRange(Str(<<97>>), bound) /\ InRange(Str(<<97, 98>>), bound)
  /\ ~InRange(Str(<<98>>), bound)

\* ================================================================ migrations
\* Store definitions with their migrations (src/src/utils.ts: defineStore,
\* createStoreBuilder) and the upgrade of a new database (src/src/createDB.ts:
\* collectMigrations, handleUpgrade, openDB).  A migration is known by its
\* name; its function records that it ran.

\* --------------------------------------------------------- bounds and inputs
MaxDefs == 3         \* store definitions made before the database is opened

\* A name is a string.  Of a string the model keeps what the code looks at: its
\* place in the collation order of localeCompare, and its spelling.  Two
\* spellings of the same characters (precomposed and decomposed) are different
\* strings that localeCompare reports as equal.
MigrationNames == {<<1, "composed">>, <<2, "composed">>, <<2, "decomposed">>}
EmptyName == <<0, "">>

\* what the caller hands to defineStore as options.migrations
MigrationLists ==
  {<<>>, << <<2, "composed">> >>, << <<2, "decomposed">>, <<1, "composed">> >>,
   << <<1, "composed">>, <<1, "composed">> >>, << EmptyName >>}

NameSet(ms) == {ms[i] : i \in 1..Len(ms)}

\* -------------------------------------------------------------- pure parts
\* a.localeCompare(b): negative, zero or positive
localeCompare(a, b) == a[1] - b[1]

Unsorted(ms) == ms

\* [...ms].sort((a, b) => a.name.localeCompare(b.name)): Array.prototype.sort
\* is stable, elements that compare equal keep their order
RECURSIVE SortByName(_)
SortByName(ms) ==
  IF Len(ms) <= 1 THEN ms
  ELSE LET front == SortByName(SubSeq(ms, 1, Len(ms) - 1))
           x == ms[Len(ms)]
           k == Cardinality({i \in 1..Len(front) : localeCompare(front[i], x) <= 0})
       IN  SubSeq(front, 1, k) \o <<x>> \o SubSeq(front, k + 1, Len(front))

NeverSeen(ms, i) == FALSE

\* migrationNames.has(migration.name) / seenNames.has(migration.name) at the
\* i-th element of the loop
Seen(ms, i) == \E j \in 1..(i - 1) : ms[j] = ms[i]

\* the loop over options.migrations of defineStore: the error it throws
ValidateMigrations(ms) ==
  LET bad == {i \in 1..Len(ms) : ms[i] = EmptyName \/ Seen(ms, i)}
  IN  IF bad = {} THEN ""
      ELSE LET i == CHOOSE x \in bad : \A y \in bad : x <= y
           IN  IF ms[i] = EmptyName THEN "Invalid migration name"
               ELSE "Duplicate migration name"

StoreDefinition(name, ms) == [name |-> name, migrations |-> ms]

Outcome(error, definition) == [error |-> error, definition |-> definition]

\* defineStore(name, schema, { migrations }), the schema being a valid one
defineStore(name, ms) ==
  IF ValidateMigrations(ms) # "" THEN Outcome(ValidateMigrations(ms), Undefined)
  ELSE Outcome("", StoreDefinition(name, SortByName(ms)))

\* builder.addMigration(migrationName, up)
addMigration(definition, migrationName) ==
  IF migrationName = EmptyName THEN Outcome("Migration name is required", Undefined)
  ELSE IF Seen(Append(definition.migrations, migrationName),
               Len(definition.migrations) + 1)
    THEN Outcome("Duplicate migration name", Undefined)
  ELSE Outcome("", StoreDefinition(definition.name,
                                   SortByName(Append(definition.migrations, migrationName))))

PushedInPlace(definition, newMigrations) ==
  [definition EXCEPT !.migrations = newMigrations]

\* what addMigration leaves of its receiver: the new list is a copy
\* ([...definition.migrations, { name, up }]) in a new definition object
AfterAdd(definition, newMigrations) == definition

\* for (const store of stores) for (const migration of store.migrations) push
RECURSIVE AllMigrations(_)
AllMigrations(stores) ==
  IF stores = <<>> THEN <<>>
  ELSE stores[1].migrations \o AllMigrations(Tail(stores))

\* collectMigrations(stores): throws, or returns the sorted list
collectMigrations(stores) ==
  LET all == AllMigrations(stores)
  IN  IF \E i \in 1..Len(all) : Seen(all, i)
        THEN [error |-> "Duplicate migration name", migrations |-> <<>>]
        ELSE [error |-> "", migrations |-> SortByName(all)]

\* the loop of handleUpgrade calls every migration
RunsToEnd(migrations, throws) == Len(migrations)

\* for (const migration of migrations) try { migration.up(db, tx) } catch (err)
\* { tx.abort(); throw err }: the place in the list of the last migration the
\* loop calls, the first one whose function throws or else the last of the list
LastCalled(migrations, throws) ==
  LET failing == {i \in 1..Len(migrations) : migrations[i] \in throws}
  IN  IF failing = {} THEN Len(migrations)
      ELSE CHOOSE i \in failing : \A j \in failing : i <= j

\* handleUpgrade(db, tx, oldVersion, stores, migrations).  The object stores
\* are created when the database did not exist (oldVersion = 0); then the
\* migrations are called in the order of the list.  A function in throws throws
\* synchronously: the transaction is aborted and the error thrown again.  A
\* function in rejects returns a promise that is rejected: the loop goes on,
\* and the catch callback aborts the transaction once the handler has returned.
handleUpgrade(oldVersion, stores, migrations, throws, rejects) ==
  LET ran == SubSeq(migrations, 1, LastCalled(migrations, throws))
      failing == {i \in 1..Len(migrations) : migrations[i] \in throws}
      thrown == IF failing = {} THEN <<>>
                ELSE <<migrations[CHOOSE i \in failing : \A j \in failing : i <= j]>>
  IN  [created |-> IF oldVersion = 0 THEN [i \in 1..Len(stores) |-> stores[i].name]
                   ELSE <<>>,
       ran |-> ran,
       thrown |-> thrown,
       rethrown |-> thrown,
       aborted |-> thrown # <<>> \/ \E i \in 1..Len(ran) : ran[i] \in rejects]

\* openDB({ name, version: 1, stores }) on a database that did not exist, with
\* migration functions that return normally
openDB(ids, stores) ==
  IF \E i, j \in 1..Len(stores) : i < j /\ stores[i].name = stores[j].name
    THEN [NotOpened EXCEPT !.status = "rejected", !.stores = ids,
                           !.error = "Duplicate store name"]
  ELSE IF collectMigrations(stores).error # ""
    THEN [NotOpened EXCEPT !.status = "rejected", !.stores = ids,
                           !.error = collectMigrations(stores).error]
  ELSE LET up == handleUpgrade(0, stores, collectMigrations(stores).migrations, {}, {})
       IN  [NotOpened EXCEPT !.status = "open", !.stores = ids,
                             !.created = up.created, !.ran = up.ran]

\* ------------------------------------------------------------------ actions
MigrationInit ==
  /\ MigrationIdle
  /\ DirectIdle
  /\ UpgradeIdle
  /\ ChainIdle
  /\ QueryIdle
  /\ TranslateIdle

\* const store = defineStore(name, schema, { migrations: ms })
DefineStore(name, ms) ==
  /\ opened.status = "none"
  /\ Len(definitions) < MaxDefs
  /\ LET out == defineStore(name, ms)
     IN  /\ last' = [NoCall EXCEPT !.op = "defineStore", !.store = name, !.names = ms,
                                   !.error = out.error]
         /\ definitions' = IF out.error # "" THEN definitions
                           ELSE Append(definitions, out.definition)
         /\ origin' = IF out.error # "" THEN origin
                      ELSE Append(origin, [from |-> 0, added |-> EmptyName,
                                           given |-> NameSet(ms)])
  /\ UNCHANGED <<opened, cvars, qvars, tvars, bvars, dvars, uvars>>

\* const next = definitions[d].addMigration(migrationName, up)
AddMigration(d, migrationName) ==
  /\ opened.status = "none"
  /\ Len(definitions) < MaxDefs
  /\ d \in 1..Len(definitions)
  /\ LET out == addMigration(definitions[d], migrationName)
     IN  /\ last' = [NoCall EXCEPT !.op = "addMigration", !.store = definitions[d].name,
                                   !.receiver = d, !.names = <<migrationName>>,
                                   !.error = out.error]
         /\ definitions' =
              IF out.error # "" THEN definitions
              ELSE Append([definitions EXCEPT
                             ![d] = AfterAdd(@, out.definition.migrations)],
                          out.definition)
         /\ origin' = IF out.error # "" THEN origin
                      ELSE Append(origin, [from |-> d, added |-> migrationName,
                                           given |-> origin[d].given \cup {migrationName}])
  /\ UNCHANGED <<opened, cvars, qvars, tvars, bvars, dvars, uvars>>

\* await openDB({ name, version: 1, stores: [definitions[ids[1]], ...] })
OpenDB(ids) ==
  /\ opened.status = "none"
  /\ \A i \in 1..Len(ids) : ids[i] \in 1..Len(definitions)
  /\ opened' = openDB(ids, [i \in 1..Len(ids) |-> definitions[ids[i]]])
  /\ UNCHANGED <<definitions, origin, last, cvars, qvars, tvars, bvars, dvars, uvars>>

MigrationNext ==
  \/ \E name \in {"users", "posts"} : \E ms \in MigrationLists : DefineStore(name, ms)
  \/ \E d \in 1..MaxDefs : \E n \in MigrationNames \cup {EmptyName} : AddMigration(d, n)
  \/ \E i, j \in 1..MaxDefs : OpenDB(IF i = j THEN <<i>> ELSE <<i, j>>)

MigrationSpec == MigrationInit /\ [][MigrationNext]_vars

\* ------------------------------------------------------------------- claims
\* C27: the migrations of every store definition, whether it comes from
\* defineStore or from any sequence of addMigration calls, are in ascending
\* order of name, and each migration that was given is in the list exactly once
C27_SortedOnce ==
  \A d \in 1..Len(definitions) :
    LET ms == definitions[d].migrations
    IN  /\ \A i, j \in 1..Len(ms) :
             i < j => localeCompare(ms[i], ms[j]) <= 0 /\ ms[i] # ms[j]
        /\ NameSet(ms) = origin[d].given

\* three migrations, of which the last came through addMigration and the first
\* two out of order through defineStore
C27_Witness ==
  \E d \in 1..Len(definitions) :
    /\ Len(definitions[d].migrations) = 3
    /\ origin[d].from # 0
    /\ origin[origin[d].from].from = 0

\* C28: addMigration returns a new definition and leaves its receiver as it
\* was: no definition that exists ever changes, the returned one holds the
\* receiver's migrations and the added one, and of two definitions derived from
\* the same receiver neither holds the migration added to the other
C28_ReceiverUnchanged ==
  /\ [][\A d \in 1..Len(definitions) :
          Len(definitions') >= d /\ definitions'[d] = definitions[d]]_vars
  /\ [](\A d \in 1..Len(definitions) :
          origin[d].from # 0 =>
            /\ origin[d].from < d
            /\ NameSet(definitions[d].migrations) =
                 NameSet(definitions[origin[d].from].migrations) \cup {origin[d].added}
            /\ Len(definitions[d].migrations) =
                 Len(definitions[origin[d].from].migrations) + 1)
  /\ [](\A d, e \in 1..Len(definitions) :
          /\ d # e
          /\ origin[d].from # 0
          /\ origin[d].from = origin[e].from
          /\ origin[d].added # origin[e].added
          => origin[e].added \notin NameSet(definitions[d].migrations))

\* two definitions derived from one receiver with different migrations
C28_Witness ==
  \E d, e \in 1..Len(definitions) :
    /\ origin[d].from # 0
    /\ origin[d].from = origin[e].from
    /\ origin[d].added # origin[e].added

\* C29: migration names are unique.  defineStore with a valid name given twice,
\* addMigration with a name its receiver holds, and openDB on differently named
\* stores of which two hold the same migration name each fail with 'Duplicate
\* migration name'; in the last case nothing is opened: no store is created and
\* no migration runs
C29_DuplicateNames ==
  /\ ( /\ last.op = "defineStore"
       /\ EmptyName \notin NameSet(last.names)
       /\ \E i, j \in 1..Len(last.names) : i < j /\ last.names[i] = last.names[j] )
     => last.error = "Duplicate migration name"
  /\ ( /\ last.op = "addMigration"
       /\ last.names[1] \in NameSet(definitions[last.receiver].migrations) )
     => last.error = "Duplicate migration name"
  /\ ( /\ opened.status # "none"
       /\ \A i, j \in 1..Len(opened.stores) :
            i < j => definitions[opened.stores[i]].name # definitions[opened.stores[j]].name
       /\ \E i, j \in 1..Len(opened.stores) :
            /\ i < j
            /\ NameSet(definitions[opened.stores[i]].migrations)
                 \cap NameSet(definitions[opened.stores[j]].migrations) # {} )
     => /\ opened.status = "rejected"
        /\ opened.error = "Duplicate migration name"
        /\ opened.created = <<>>
        /\ opened.ran = <<>>

\* openDB refused two stores for a shared migration name, after addMigration
\* refused a name its receiver held
C29_Witness ==
  /\ opened.status = "rejected"
  /\ opened.error = "Duplicate migration name"
  /\ Len(opened.stores) = 2
  /\ last.op = "addMigration"
  /\ last.error = "Duplicate migration name"

\* the stores openDB was called with
OpenedStores == [i \in 1..Len(opened.stores) |-> definitions[opened.stores[i]]]

\* C30: the migrations of all stores run in one global ascending order of name
\* that the names alone decide: listing the stores in another order, or stores
\* that were given the same migrations in another order, runs them in the same
\* order
C30_GlobalOrder ==
  opened.status = "open" =>
    /\ \A i, j \in 1..Len(opened.ran) :
         i < j => localeCompare(opened.ran[i], opened.ran[j]) <= 0
    /\ NameSet(opened.ran) = NameSet(AllMigrations(OpenedStores))
    /\ \A d, e \in 1..Len(definitions) :
         LET others == IF d = e THEN <<definitions[d]>>
                       ELSE <<definitions[d], definitions[e]>>
             same(a, b) == /\ definitions[a].name = definitions[opened.stores[b]].name
                           /\ origin[a].given = origin[opened.stores[b]].given
         IN  ( /\ Len(others) = Len(opened.stores)
               /\ \/ Len(others) = 1 /\ same(d, 1)
                  \/ Len(others) = 2 /\ same(d, 1) /\ same(e, 2)
                  \/ Len(others) = 2 /\ same(d, 2) /\ same(e, 1) )
             => collectMigrations(others).migrations = opened.ran

\* ============================================== the cursor walk and the plan
\* the limit of the running plan is met: collected has reached limitCount
LimitMet(x) == x.plan.limitCount # Undefined /\ x.collected >= x.plan.limitCount.n

\* C32: on the cursor path, for every limit and offset, a record visited while
\* fewer than offset records were skipped is skipped and not collected, and the
\* cursor is never advanced (cursor.continue()) while the number of collected
\* records has reached the limit
C32_CursorWalk ==
  [][query.path = "cursor" /\ query'.path = "cursor" =>
       /\ query.skipped < query.plan.offsetCount /\ query'.pos > query.pos =>
            /\ query'.skipped = query.skipped + 1
            /\ query'.results = query.results
       /\ query.skipped >= query.plan.offsetCount => query'.skipped = query.skipped
       /\ LimitMet(query) => query'.pos = query.pos]_vars

\* limit(count: number), offset(count: number) and the options of query() take
\* any number: the counts a caller passes
Counts == {-1, 0, 1}

CountOptions ==
  {[index |-> "price", where |-> Undefined, orderBy |-> Undefined, limit |-> l,
    offset |-> f] :
     l \in {Undefined} \cup {Num(n) : n \in Counts}, f \in {Num(n) : n \in Counts}}

PlanNext ==
  \/ Index("price")
  \/ Select(Sel("gte", Num(1), Undefined))
  \/ \E order \in {"asc", "desc"} : OrderBy(order)
  \/ \E count \in Counts : Limit(count)
  \/ \E count \in Counts : Offset(count)
  \/ FindAll
  \/ \E o \in CountOptions : Query(o)
  \/ CursorSuccess
  \/ RequestSuccess
  \/ TxComplete

PlanSpec == QueryInit /\ [][PlanNext]_vars

\* offset is a non-negative integer, limit is absent or a non-negative integer
WellFormedPlan(plan) ==
  /\ plan.offsetCount >= 0
  /\ plan.limitCount = Undefined \/ plan.limitCount.n >= 0

\* C33: every plan that builder calls or the options of query() lead to is
\* well formed, and so is every plan the executor runs
C33_PlanWellFormed ==
  /\ WellFormedPlan(builder)
  /\ query.tx # "none" => WellFormedPlan(query.plan)

\* lower and upper of a range are in order
InOrder(r) ==
  r # NoRange /\ r.lower # Undefined /\ r.upper # Undefined =>
    /\ ~KeyLess(r.upper, r.lower)
    /\ r.lower = r.upper => ~r.lowerOpen /\ ~r.upperOpen

\* C34: no query runs over a malformed bound.  between(lo, hi) with lo above
\* hi ends the builder expression with an error, after which no terminal runs;
\* query({ where }) with a condition whose chosen endpoints are out of order, or
\* equal with an exclusive end, throws and opens no transaction; and the range
\* of every plan that has a transaction is in order
C34_NoMalformedBound ==
  /\ [][\A sel \in Selections :
          sel.method = "between" /\ KeyLess(sel.b, sel.a) /\ Select(sel)
            => builder'.stage = "thrown"]_vars
  /\ [](builder.stage = "thrown" => query.op = "none")
  /\ []( ( /\ query.op = "query"
           /\ query.where # Undefined
           /\ query.where.t = "object"
           /\ Matches(query.where) # {}
           /\ Malformed(Variants(query.where)[FirstVariant(query.where)]) )
         => /\ query.pstate = "thrown"
            /\ query.pvalue = DataError
            /\ query.tx = "none" )
  /\ [](query.tx # "none" => InOrder(query.plan.range))

\* query({ where: { gt: 1, lt: 1 } }) threw, nothing was opened
C34_Witness ==
  /\ query.op = "query"
  /\ query.where = [NoCond EXCEPT !.gt = Num(1), !.lt = Num(1)]
  /\ query.pstate = "thrown"
  /\ query.tx = "none"

\* ============================================================ reads and data
\* read chains, write chains and query terminals on one connection
ReadsNext ==
  \/ LiveNext
  \/ FindAll
  \/ Count
  \/ Query([index |-> NoIndex, where |-> Undefined, orderBy |-> Undefined,
            limit |-> Num(1), offset |-> Undefined])
  \/ CursorSuccess
  \/ RequestSuccess
  \/ RequestError(UnknownError)
  \/ TxComplete

ReadsSpec == Init /\ [][ReadsNext]_vars

\* C38: reads leave the data as it is.  No step of a query changes the queried
\* collection, whether the terminal fulfils or rejects; the transaction of a
\* query terminal and of a read chain is readonly; and no step of a readonly
\* transaction (requests served, commit, abort) changes a collection
C38_ReadsLeaveData ==
  /\ [][products' = products]_vars
  /\ [](query.tx # "none" => query.mode = "readonly")
  /\ [](\A t \in TxIds :
          kind[calls[txs[t].call].chain] = "read" => txs[t].mode = "readonly")
  /\ [][\A t \in TxIds : txs[t].mode = "readonly" /\ txs'[t] # txs[t] => db' = db]_vars

\* after a write chain changed the data: a read chain fulfilled and a query
\* terminal rejected, both transactions over
C38_Witness ==
  /\ db # InitDb
  /\ \E id \in CallIds :
       /\ kind[calls[id].chain] = "read"
       /\ calls[id].outcome = "fulfilled"
       /\ calls[id].tx # 0
       /\ txs[calls[id].tx].state = "committed"
  /\ query.pstate = "rejected" /\ query.tx = "aborted"

\* C40: limit and offset commute and the last call wins.  For every builder
\* that takes modifiers and all counts a, b: limit(a) then offset(b) gives the
\* plan of offset(b) then limit(a); limit(a).limit(b) gives the plan of
\* limit(b), offset(a).offset(b) that of offset(b); orderBy before or after
\* limit or offset gives the same plan; and equal plans start equal runs for
\* every terminal
C40_ModifiersCommute ==
  builder.stage \in {"IndexQueryBuilder", "FinalQueryBuilder"} =>
    \A a, b \in Counts :
      /\ offset(limit(builder, a), b) = limit(offset(builder, b), a)
      /\ limit(limit(builder, a), b) = limit(builder, b)
      /\ offset(offset(builder, a), b) = offset(builder, b)
      /\ \A order \in {"asc", "desc"} :
           /\ orderBy(limit(builder, a), order) = limit(orderBy(builder, order), a)
           /\ orderBy(offset(builder, b), order) = offset(orderBy(builder, order), b)
           /\ orderBy(offset(limit(builder, a), b), order)
                = limit(offset(orderBy(builder, order), b), a)
      /\ \A op \in {"findAll", "find"} :
           executeQuery(op, Undefined, offset(limit(builder, a), b))
             = executeQuery(op, Undefined, limit(offset(builder, b), a))

\* findAll ran on a plan made by offset, limit and orderBy, in that order
C40_Witness ==
  /\ builder.stage = "FinalQueryBuilder"
  /\ builder.offsetCount = 1 /\ builder.limitCount = Num(1) /\ builder.order = "desc"
  /\ builder.range # NoRange
  /\ query.op = "findAll" /\ query.plan = builder
  /\ query.pstate = "fulfilled"
  /\ Len(query.pvalue.items) = 1

\* ======================================================= database.transaction
\* database.transaction(storeNames, mode, fn) of openDB (src/src/createDB.ts):
\*   const tx = idb.transaction(storeNames, mode); const result = fn(tx);
\*   if (result instanceof Promise) await result; await promisifyTransaction(tx)
\* fn issues its requests on tx and returns a value, a promise or throws.

\* what a function handed to transaction() does with tx, and what it returns:
\* a value, a promise that is already settled, a promise that settles in a
\* later task, or nothing because it throws
DirectFns ==
  {[ops |-> q, returns |-> r] :
     q \in {<<>>, <<PutOp("users", 2, 1)>>, <<GetOp("users", 1)>>,
            <<AddOp("users", 1, 1), AddOp("users", 1, 1)>>},
     r \in {"value", "resolved", "rejected", "pending", "throws"}}

\* a request fn cannot issue: store.put / add on a readonly transaction throws
\* ReadOnlyError, a store outside the scope NotFoundError
CannotIssue(scope, mode, op) ==
  \/ ~Includes(scope, op.storeName)
  \/ mode = "readonly" /\ IsWrite(op)

\* the requests fn issued before it returned or threw
Issued(scope, mode, ops) ==
  LET bad == {i \in 1..Len(ops) : CannotIssue(scope, mode, ops[i])}
      n == IF bad = {} THEN Len(ops) ELSE (CHOOSE i \in bad : \A j \in bad : i <= j) - 1
  IN  [i \in 1..n |-> [op |-> ops[i], status |-> "pending", result |-> NoResult]]

\* the outcome the caller sees, once the promise of the bridge has settled
DirectResume(d) ==
  IF d.pc # "tx" \/ d.tx.pstate \notin {"fulfilled", "rejected"} THEN d
  ELSE [d EXCEPT !.pc = "done", !.outcome = d.tx.pstate, !.value = d.tx.pvalue]

\* the statements after fn(tx), up to the first await that gives up the turn
AfterFn(d) ==
  CASE d.fn.returns \in {"value", "resolved"} ->
         [d EXCEPT !.pc = "tx", !.tx = PromisifyTransaction(d.tx)]
    [] d.fn.returns = "pending" -> [d EXCEPT !.pc = "fn"]
    [] OTHER -> [d EXCEPT !.pc = "done", !.outcome = "rejected", !.value = "fn"]

\* database.transaction(storeNames, mode, fn): the synchronous turn
Transaction(scope, mode, fn) ==
  /\ direct.pc = "none"
  /\ LET tx == [NewTx(0, scope, mode) EXCEPT !.reqs = Issued(scope, mode, fn.ops),
                                             !.state = "inactive", !.snap = db]
         threw == Len(tx.reqs) < Len(fn.ops)
     IN  direct' = AfterFn([NoDirect EXCEPT !.tx = tx,
                              !.fn = IF threw THEN [fn EXCEPT !.returns = "throws"]
                                     ELSE fn])
  /\ UNCHANGED <<cvars, qvars, tvars, bvars, mvars, uvars>>

\* the promise fn returned settles in a later task: await result resumes
FnSettles(how) ==
  /\ direct.pc = "fn"
  /\ direct' = IF how = "resolved"
                 THEN DirectResume([direct EXCEPT !.pc = "tx",
                                                  !.tx = PromisifyTransaction(direct.tx)])
                 ELSE [direct EXCEPT !.pc = "done", !.outcome = "rejected",
                                     !.value = "fn"]
  /\ UNCHANGED <<cvars, qvars, tvars, bvars, mvars, uvars>>

\* the engine serves the requests of the transaction; a failing request gets
\* its error event, then the transaction is aborted and gets its abort event
DirectRequests ==
  /\ direct.pc # "none"
  /\ direct.tx.state = "inactive"
  /\ Pending(direct.tx) # {}
  /\ \E run \in {RunRequests(direct.tx.reqs, 1, db)} :
       IF run.failed = 0
         THEN /\ direct' = [direct EXCEPT !.tx.reqs = run.reqs]
              /\ db' = run.db
         ELSE \E fired \in {Fire([direct.tx EXCEPT !.reqs = run.reqs], "error")} :
                /\ direct' = DirectResume([direct EXCEPT !.tx =
                                [Fire([fired EXCEPT !.error = "ConstraintError"], "abort")
                                   EXCEPT !.state = "aborted"]])
                /\ db' = direct.tx.snap
  /\ UNCHANGED <<kind, storeNames, operations, calls, txs, running>>
  /\ UNCHANGED <<qvars, tvars, bvars, mvars, uvars>>

\* no request left: the transaction commits and its complete event fires
DirectComplete ==
  /\ direct.pc # "none"
  /\ direct.tx.state = "inactive"
  /\ Pending(direct.tx) = {}
  /\ direct' = DirectResume([direct EXCEPT !.tx =
                               Fire([direct.tx EXCEPT !.state = "committed"], "complete")])
  /\ UNCHANGED <<cvars, qvars, tvars, bvars, mvars, uvars>>

\* no request left, but the commit fails: rollback, the abort event fires
DirectAbort ==
  /\ direct.pc # "none"
  /\ direct.tx.state = "inactive"
  /\ Pending(direct.tx) = {}
  /\ direct' = DirectResume([direct EXCEPT !.tx =
                               Fire([direct.tx EXCEPT !.state = "aborted",
                                                      !.error = "UnknownError"], "abort")])
  /\ db' = direct.tx.snap
  /\ UNCHANGED <<kind, storeNames, operations, calls, txs, running>>
  /\ UNCHANGED <<qvars, tvars, bvars, mvars, uvars>>

DirectNext ==
  \/ \E scope \in {<<"users">>, <<"posts">>} : \E mode \in {"readonly", "readwrite"} :
       \E fn \in DirectFns : Transaction(scope, mode, fn)
  \/ \E how \in {"resolved", "rejected"} : FnSettles(how)
  \/ DirectRequests
  \/ DirectComplete
  \/ DirectAbort

\* The engine serves and ends the transaction it holds, and the promise that fn
\* returned settles.
DirectFairSpec ==
  /\ MigrationInit
  /\ [][DirectNext]_vars
  /\ WF_vars(DirectRequests)
  /\ WF_vars(DirectComplete \/ DirectAbort)
  /\ WF_vars(\E how \in {"resolved", "rejected"} : FnSettles(how))

\* C37: database.transaction(storeNames, mode, fn) eventually settles for every
\* fn, also when the promise fn returned settles after the transaction is over
C37_TransactionSettles ==
  (direct.pc # "none") ~> (direct.outcome \in {"fulfilled", "rejected"})

\* ============================================================ two write chains
\* db.write(scope) twice: both chains are write chains
WritersInit ==
  /\ db = InitDb
  /\ kind = [c \in Chains |-> "write"]
  /\ \E sc \in ScopeChoices : storeNames = [c \in Chains |-> sc[c]]
  /\ operations = [c \in Chains |-> <<>>]
  /\ calls = <<>>
  /\ txs = <<>>
  /\ running = 0
  /\ QueryIdle
  /\ TranslateIdle
  /\ MigrationIdle
  /\ DirectIdle
  /\ UpgradeIdle

WritersSpec == WritersInit /\ [][Next]_vars

\* both transactions committed and both execute() calls fulfilled
BothFulfil(a, b) ==
  \A t \in {a, b} : txs[t].state = "committed" /\ calls[txs[t].call].outcome = "fulfilled"

WriterQueues ==
  {<<PutOp("users", 1, 1), PutOp("users", NoKey, 1)>>,
   <<PutOp("users", 1, 1), PutOp("posts", 1, 2)>>,
   <<AddOp("users", 1, 1), PutOp("users", 1, 1)>>,
   <<ClearOp("users")>>}

ReaderQueues == {<<GetOp("users", 1)>>, <<GetOp("users", 1), CountOp("users", <<>>)>>}

SnapshotInit ==
  /\ db = InitDb
  /\ kind = [c \in Chains |-> IF c = 1 THEN "write" ELSE "read"]
  /\ \E sc \in ScopeChoices : storeNames = [c \in Chains |-> sc[c]]
  /\ \E w \in WriterQueues : \E r \in ReaderQueues :
       operations = [c \in Chains |-> IF c = 1 THEN w ELSE r]
  /\ calls = <<>>
  /\ txs = <<>>
  /\ running = 0
  /\ QueryIdle
  /\ TranslateIdle
  /\ MigrationIdle
  /\ DirectIdle
  /\ UpgradeIdle

\* the chains are executed, in any order and any number of times
SnapshotNext ==
  \/ \E c \in Chains : Execute(c)
  \/ \E id \in 1..MaxCalls : Issue(id)
  \/ \E id \in 1..MaxCalls : Await(id)
  \/ \E t \in 1..MaxCalls : EngineRequest(t)
  \/ \E t \in 1..MaxCalls : EngineAbort(t)
  \/ \E t \in 1..MaxCalls : EngineAbortRequest(t)
  \/ \E t \in 1..MaxCalls : EngineAbortEvent(t)
  \/ \E t \in 1..MaxCalls : EngineComplete(t)

SnapshotSpec == SnapshotInit /\ [][SnapshotNext]_vars

\* the contents that the calls from the i-th on can have made of d when each
\* write chain's queue took effect as a whole (its execute() fulfilled) or not
\* at all
RECURSIVE Whole(_, _)
Whole(i, d) ==
  IF i > Len(calls) THEN {d}
  ELSE Whole(i + 1, d) \cup
       (IF kind[calls[i].chain] = "write" /\ calls[i].outcome = "fulfilled"
          THEN Whole(i + 1, ApplyAll(calls[i].queue, d))
          ELSE {})

\* C36: the results of a fulfilled execute() of a read chain are all taken from
\* one state of the collections of its scope, the one its transaction started
\* from, and that state holds of every write chain's queue either all effects
\* or none
C36_ReadSnapshot ==
  \A id \in CallIds :
    LET cl == calls[id] IN
      (kind[cl.chain] = "read" /\ cl.outcome = "fulfilled" /\ cl.queue # <<>>) =>
        /\ \A i \in 1..Len(cl.queue) :
             cl.value.results[i] =
               EvalRead(cl.queue[i], txs[cl.tx].snap[cl.queue[i].storeName])
        /\ \E d \in Whole(1, InitDb) : SameInScope(txs[cl.tx], txs[cl.tx].snap, d)

\* ================================================================== upgrades
\* Opening, closing and opening again one database (src/src/createDB.ts: openDB,
\* handleUpgrade; src/src/utils.ts: openDatabase).  The database on disk has a
\* version, object stores, and the writes of the migrations applied to it; the
\* host engine fires upgradeneeded when the requested version is above the
\* version on disk, and rolls the upgrade transaction back when it is aborted.
MaxVersion == 2      \* versions requested of openDB
MaxOpens == 3        \* openDB calls made on the database

\* what the caller defined: a store, and the same store with one more migration
UpgradeInit ==
  /\ \E ms \in MigrationLists : \E n \in MigrationNames :
       LET first == defineStore("users", ms)
           second == addMigration(first.definition, n)
       IN  /\ first.error = ""
           /\ second.error = ""
           /\ definitions = <<first.definition, second.definition>>
           /\ origin = <<[from |-> 0, added |-> EmptyName, given |-> NameSet(ms)],
                         [from |-> 1, added |-> n, given |-> NameSet(ms) \cup {n}]>>
           /\ last = [NoCall EXCEPT !.op = "addMigration", !.store = "users",
                                    !.receiver = 1, !.names = <<n>>]
  /\ opened = NotOpened
  /\ \E t, r \in SUBSET MigrationNames :
       /\ t \cap r = {}
       /\ upgrade = [NoUpgrade EXCEPT !.throws = t, !.rejects = r]
  /\ DirectIdle
  /\ ChainIdle
  /\ QueryIdle
  /\ TranslateIdle

\* openDB({ name, version, stores: [definitions[ids[1]], ...] }) up to
\* indexedDB.open(name, version): the stores and the migrations are validated
OpenRequest(ids, version) ==
  /\ upgrade.pc \in {"none", "closed", "rejected"}
  /\ upgrade.opens < MaxOpens
  /\ \A i \in 1..Len(ids) : ids[i] \in 1..Len(definitions)
  /\ LET invalid == openDB(ids, [i \in 1..Len(ids) |-> definitions[ids[i]]]).error
     IN  upgrade' = [upgrade EXCEPT
                       !.pc = IF invalid # "" THEN "rejected" ELSE "requested",
                       !.error = invalid,
                       !.version = version,
                       !.stores = ids,
                       !.ran = <<>>, !.thrown = <<>>, !.rethrown = <<>>,
                       !.aborted = FALSE,
                       !.before = upgrade.disk,
                       !.opens = @ + 1]
  /\ UNCHANGED <<cvars, qvars, tvars, bvars, mvars, dvars>>

\* request.onsuccess = () => resolve(request.result), the version on disk being
\* the requested one: no upgradeneeded event
OpenSuccess ==
  /\ upgrade.pc = "requested"
  /\ upgrade.version = upgrade.disk.version
  /\ upgrade' = [upgrade EXCEPT !.pc = "open"]
  /\ UNCHANGED <<cvars, qvars, tvars, bvars, mvars, dvars>>

\* request.onerror = () => reject(request.error), the version on disk being
\* above the requested one
OpenVersionError ==
  /\ upgrade.pc = "requested"
  /\ upgrade.version < upgrade.disk.version
  /\ upgrade' = [upgrade EXCEPT !.pc = "rejected", !.error = "VersionError"]
  /\ UNCHANGED <<cvars, qvars, tvars, bvars, mvars, dvars>>

\* request.onupgradeneeded: handleUpgrade(db, tx, oldVersion, stores, migrations)
\* in the upgrade transaction; every call of a migration function is counted
UpgradeNeeded ==
  /\ upgrade.pc = "requested"
  /\ upgrade.version > upgrade.disk.version
  /\ LET stores == [i \in 1..Len(upgrade.stores) |-> definitions[upgrade.stores[i]]]
         up == handleUpgrade(upgrade.disk.version, stores,
                             collectMigrations(stores).migrations,
                             upgrade.throws, upgrade.rejects)
     IN  upgrade' = [upgrade EXCEPT
                       !.pc = "upgrading",
                       !.before = upgrade.disk,
                       !.disk = [version |-> upgrade.version,
                                 stores |-> @.stores \cup NameSet(up.created),
                                 applied |-> @.applied \cup NameSet(up.ran)],
                       !.ran = up.ran,
                       !.thrown = up.thrown,
                       !.rethrown = up.rethrown,
                       !.aborted = up.aborted,
                       !.runs = @ \o [i \in 1..Len(up.ran) |->
                                        [name |-> up.ran[i], open |-> upgrade.opens]]]
  /\ UNCHANGED <<cvars, qvars, tvars, bvars, mvars, dvars>>

\* the upgrade transaction commits, request.onsuccess resolves openDB
UpgradeComplete ==
  /\ upgrade.pc = "upgrading"
  /\ ~upgrade.aborted
  /\ upgrade' = [upgrade EXCEPT !.pc = "open", !.committed = @ \cup {upgrade.opens}]
  /\ UNCHANGED <<cvars, qvars, tvars, bvars, mvars, dvars>>

\* the aborted upgrade transaction is rolled back, request.onerror rejects openDB
UpgradeAbort ==
  /\ upgrade.pc = "upgrading"
  /\ upgrade.aborted
  /\ upgrade' = [upgrade EXCEPT !.pc = "rejected", !.error = "AbortError",
                                !.disk = upgrade.before]
  /\ UNCHANGED <<cvars, qvars, tvars, bvars, mvars, dvars>>

\* database.close()
Close ==
  /\ upgrade.pc = "open"
  /\ upgrade' = [upgrade EXCEPT !.pc = "closed"]
  /\ UNCHANGED <<cvars, qvars, tvars, bvars, mvars, dvars>>

UpgradeNext ==
  \/ \E ids \in {<<1>>, <<2>>, <<1, 2>>} : \E version \in 1..MaxVersion :
       OpenRequest(ids, version)
  \/ OpenSuccess
  \/ OpenVersionError
  \/ UpgradeNeeded
  \/ UpgradeComplete
  \/ UpgradeAbort
  \/ Close

UpgradeSpec == UpgradeInit /\ [][UpgradeNext]_vars

\* C31: over any sequence of opening and closing the database, at the same
\* version or at increasing versions, the function of a migration runs at most
\* once: a migration applied by an upgrade that committed is not called again
C31_RunAtMostOnce ==
  \A i, j \in 1..Len(upgrade.runs) :
    (i < j /\ upgrade.runs[i].name = upgrade.runs[j].name) =>
      upgrade.runs[i].open \notin upgrade.committed

\* the migrations of the open request in progress, in the order they are run
RequestedMigrations ==
  collectMigrations([i \in 1..Len(upgrade.stores) |->
                       definitions[upgrade.stores[i]]]).migrations

\* C39: when the function of a migration throws synchronously during an
\* upgrade, the upgrade transaction is aborted and the error thrown again, no
\* migration after it in the order of names is called, and once the upgrade is
\* over the database is as it was before it: nothing of the migrations that ran
\* earlier in the upgrade persists
C39_ThrowAborts ==
  upgrade.thrown # <<>> =>
    /\ upgrade.aborted
    /\ upgrade.rethrown = upgrade.thrown
    /\ upgrade.ran = SubSeq(RequestedMigrations, 1, Len(upgrade.ran))
    /\ upgrade.ran[Len(upgrade.ran)] = upgrade.thrown[1]
    /\ \A i \in 1..(Len(upgrade.ran) - 1) : upgrade.ran[i] \notin upgrade.throws
    /\ upgrade.pc \in {"upgrading", "rejected"}
    /\ upgrade.opens \notin upgrade.committed
    /\ upgrade.pc = "rejected" =>
         /\ upgrade.error = "AbortError"
         /\ upgrade.disk = upgrade.before

\* the second of three migrations threw on a database that did not exist: the
\* first had run, the third was not called, and there is no database
C39_Witness ==
  /\ upgrade.thrown # <<>>
  /\ upgrade.pc = "rejected"
  /\ Len(upgrade.ran) = 2
  /\ Len(RequestedMigrations) = 3
  /\ upgrade.before = NoDisk
  /\ upgrade.disk = NoDisk

====
